---------------------------- MODULE Spec2Model ----------------------------
(***************************************************************************)
(* MuralBot toolpath pipeline: tour planner (algorithms/tspSolver.js),     *)
(* spatial index (algorithms/spatialIndex.js), paint tracker               *)
(* (gcode/refillTracker.js), coordinate transformer and the G-code         *)
(* generator (gcode/gcodeGenerator.js, gcode/gcodeBuilder.js).             *)
(*                                                                         *)
(* Conventions.  JavaScript arrays are 0-based: a tour holds 0-based       *)
(* indices, and points[i] of the source is points[i + 1] here.             *)
(* Math.sqrt is a rounding to finite precision; here it rounds down to     *)
(* 1/DistScale.  Comparisons of one square root against another, or        *)
(* against a radius, are made exactly on the squares.                      *)
(***************************************************************************)
EXTENDS Integers, Sequences, FiniteSets, TLC

VARIABLES
    points,          \* tour planner: the point array handed to solveTSP
    tspStart,        \* tour planner: options.startIndex of the last call
    tspOptimize,     \* tour planner: options.optimize of the last call
    nnTour,          \* tour planner: result of nearestNeighbor in the last call
    tour,            \* tour planner: result of solveTSP
    tspPhase,        \* "input" while the array is built, "solved" after solveTSP
    tracker,         \* RefillTracker: _paintCapacity, _remainingCapacity,
                     \* _consumedPaint, _refillCount
    trackerCall,     \* the last method called on the tracker
    trackerReturn,   \* what the last addUsage / addLineUsage / addDotUsage returned
    trackerThrew,    \* whether the last call threw
    sinceRefill,     \* history: paint deducted since the last reset or refill
    usageEvents,     \* _usageHistory.length
    genConfig,       \* generator: the config of the current run
    colorLayers,     \* generator: the colorLayers argument (<<>> for none)
    genEdgeMap,      \* generator: the edgeMap argument
    lines,           \* generator: the lines emitted so far in the run
    genPosition,     \* generator: _currentPosition of the shared instance
    genPhase,        \* generator: "idle", "dots", "layerDone", "edgeDone",
                     \* "done" (generate returned) or "failed" (it threw)
    genLayer,        \* generator: i of generateColorLayersGcode
    dotQueue,        \* generator: the dots of the layer still to paint
    result,          \* generator: the stream generate returned, <<>> if none
    error,           \* generator: the message of the error generate threw
    signals,         \* history: usage calls of the run that returned true
    genPlanned,      \* history: primitives planned so far in the run
    genRuns,         \* history: calls of generate so far
    xfAnchors,       \* transformer: the anchors of the last call
    xfPoint,         \* transformer: the point given to cartesianToTrilateration
    xfCables,        \* transformer: the X, Y, Z it returned
    xfBack,          \* transformer: what trilaterationToCartesian made of them
    xfCall,          \* transformer: "none", "roundTrip" or "forward"
    spImage,         \* scanline planner: the imageData of the last call
    spHorizontal,    \* scanline planner: result of planHorizontalScanlines
    spBidirectional, \* scanline planner: result of planBidirectionalScanlines
    spCall,          \* scanline planner: "none" or "planned"
    plPoints,        \* simplifyPolyline: the points given
    plTolerance,     \* simplifyPolyline: the tolerance given
    plResult,        \* simplifyPolyline: the polyline returned
    plCall,          \* simplifyPolyline: "none" or "simplified"
    kmCall,          \* findDominantColors: imageData.data, numColors, maxIterations
    kmLoop,          \* findDominantColors: centroids, iteration, hasConverged
    kmPhase,         \* findDominantColors: "none", "clustering", "resolved", "rejected"
    kmResult,        \* findDominantColors: the colors the promise resolved with
    edCall,          \* detectEdges: gray image, lowThreshold, highThreshold
    edEdges,         \* detectEdges: the edge map of _hysteresis
    edPhase,         \* detectEdges: "none" or "resolved"
    pureCall,        \* the last call of a function of the pipeline that keeps no
                     \* state of its own: its name, its arguments and, for a call
                     \* followed step by step, its locals
    pureReturn,      \* what that call returned
    genParked        \* generator: the locals of a second call of generate that is
                     \* suspended or has returned while the other call runs

tspVars == <<points, tspStart, tspOptimize, nnTour, tour, tspPhase>>

trackerVars == <<tracker, trackerCall, trackerReturn, trackerThrew, sinceRefill, usageEvents>>

genVars == <<genConfig, colorLayers, genEdgeMap, lines, genPosition, genPhase, genLayer,
             dotQueue, result, error, signals, genPlanned, genRuns>>

xfVars == <<xfAnchors, xfPoint, xfCables, xfBack, xfCall>>

\* the variables of the stages that the tour planner, the tracker and the
\* generator do not touch
spVars == <<spImage, spHorizontal, spBidirectional, spCall>>

plVars == <<plPoints, plTolerance, plResult, plCall>>

kmVars == <<kmCall, kmLoop, kmPhase, kmResult>>

edVars == <<edCall, edEdges, edPhase>>

pureVars == <<pureCall, pureReturn>>

otherVars == <<xfVars, spVars, plVars, kmVars, edVars, genParked, pureVars>>

vars == <<tspVars, trackerVars, genVars, otherVars>>
-----------------------------------------------------------------------------
(* Bounds of the model *)

\* x and y coordinates of the points offered to the tour planner
MaxGridX == 3
MaxGridY == 1
\* distance between neighbouring offered coordinates
GridStep == 2
\* largest point array handed to the tour planner
MaxPoints == 5
\* nearestNeighbor uses the spatial index above this many points (1000 in
\* the source, scaled to the point arrays of the model)
SpatialThreshold == 4
\* Math.sqrt keeps 1/DistScale
DistScale == 1000
\* generatePointillismGcode paints in scan order above this many dots (10000
\* in the source, scaled to the layers of the model)
DotCap == 5
\* generatePointillismGcode asks for 2-opt below this many dots (500 in the
\* source, scaled to the layers of the model)
OptimizeBelow == 5
\* usage calls on the tracker between two resets
MaxUsages == 4
\* refills of the tracker between two resets
MaxRefills == 2
\* color layers of a run
MaxLayers == 2
\* calls of generate on the shared generator
MaxRuns == 1

-----------------------------------------------------------------------------
(* Arithmetic helpers *)

Max(a, b) == IF a >= b THEN a ELSE b
Min(a, b) == IF a <= b THEN a ELSE b
Abs(a) == IF a < 0 THEN -a ELSE a

RECURSIVE Pow4(_)
Pow4(k) == IF k = 0 THEN 1 ELSE 4 * Pow4(k - 1)

RECURSIVE ISqrtBetween(_, _, _)
\* largest r in lo..hi with r * r <= n, given lo * lo <= n
ISqrtBetween(n, lo, hi) ==
    IF lo >= hi THEN lo
    ELSE LET mid == (lo + hi + 1) \div 2
         IN IF mid * mid <= n THEN ISqrtBetween(n, mid, hi)
                              ELSE ISqrtBetween(n, lo, mid - 1)

\* floor of the square root
ISqrt(n) == ISqrtBetween(n, 0, Min(n, 46340))

\* squared Euclidean distance
Dist2(p1, p2) == (p1.x - p2.x) * (p1.x - p2.x) + (p1.y - p2.y) * (p1.y - p2.y)

\* distance(p1, p2): Math.sqrt(dx * dx + dy * dy), in units of 1/DistScale
distance(p1, p2) == ISqrt(Dist2(p1, p2) * DistScale * DistScale)

RECURSIVE SeqSum(_)
SeqSum(s) == IF s = <<>> THEN 0 ELSE Head(s) + SeqSum(Tail(s))

Range(s) == {s[i] : i \in DOMAIN s}

\* the elements of s in reverse order: Array.prototype.reverse
Reverse(s) == [i \in 1..Len(s) |-> s[Len(s) + 1 - i]]

-----------------------------------------------------------------------------
(* Spatial index: algorithms/spatialIndex.js *)

\* points[i] of the source
Pt(pts, i) == pts[i + 1]

\* the valid indices of an array
Indices(pts) == 0..(Len(pts) - 1)

MaxOf(S) == CHOOSE m \in S : \A v \in S : v <= m
MinOf(S) == CHOOSE m \in S : \A v \in S : m <= v

XsOf(pts) == {pts[i].x : i \in DOMAIN pts}
YsOf(pts) == {pts[i].y : i \in DOMAIN pts}

\* _calculateOptimalGridSize: Math.max(1, sqrt(area) / sqrt(n)), kept as the
\* square of the grid size, a fraction <<numerator, denominator>>
GridSizeSquared(pts) ==
    IF Len(pts) = 0 THEN <<100, 1>>
    ELSE LET width == MaxOf(XsOf(pts)) - MinOf(XsOf(pts))
             height == MaxOf(YsOf(pts)) - MinOf(YsOf(pts))
             area == width * height
         IN IF area > Len(pts) THEN <<area, Len(pts)>> ELSE <<1, 1>>

\* Math.floor(v / gridSize) for a coordinate v >= 0
CellOf(v, gs2) ==
    CHOOSE c \in 0..v : /\ c * c * gs2[1] <= v * v * gs2[2]
                        /\ (c + 1) * (c + 1) * gs2[1] > v * v * gs2[2]

\* _getCellKey / getGridCell
getGridCell(p, gs2) == [x |-> CellOf(p.x, gs2), y |-> CellOf(p.y, gs2)]

\* radius <= bound for the radius gridSize * 2^k of the k-th search, on squares
RadiusWithin(gs2, k, boundSquared) == gs2[1] * Pow4(k) <= boundSquared * gs2[2]

\* 2^k, the cell radius Math.ceil(radius / gridSize) of the k-th search
RECURSIVE Pow2(_)
Pow2(k) == IF k = 0 THEN 1 ELSE 2 * Pow2(k - 1)

\* findInRadius(point, gridSize * 2^k): the indices of the points in the
\* cells around the query cell that lie within the radius
findInRadius(pts, gs2, point, k) ==
    LET cell == getGridCell(point, gs2)
    IN {i \in Indices(pts) :
          /\ Abs(getGridCell(Pt(pts, i), gs2).x - cell.x) <= Pow2(k)
          /\ Abs(getGridCell(Pt(pts, i), gs2).y - cell.y) <= Pow2(k)
          /\ Dist2(point, Pt(pts, i)) * gs2[2] <= gs2[1] * Pow4(k)}

\* findInRadius lists its results cell by cell (dx, then dy ascending) and, in
\* a cell, in index order
ListedBefore(pts, gs2, i, j) ==
    LET ci == getGridCell(Pt(pts, i), gs2)
        cj == getGridCell(Pt(pts, j), gs2)
    IN \/ ci.x < cj.x
       \/ ci.x = cj.x /\ ci.y < cj.y
       \/ ci.x = cj.x /\ ci.y = cj.y /\ i <= j

-----------------------------------------------------------------------------
(* Tour planner: algorithms/tspSolver.js *)

\* calculateTourLength
calculateTourLength(t, pts) ==
    IF Len(t) < 2 THEN 0
    ELSE SeqSum([i \in 1..(Len(t) - 1) |-> distance(Pt(pts, t[i]), Pt(pts, t[i + 1]))])

\* the brute-force scan of nearestNeighbor: the first unvisited index at the
\* least distance, -1 when none is left
NearestBruteForce(pts, cur, visited) ==
    LET cand == Indices(pts) \ visited
        d(i) == Dist2(Pt(pts, cur), Pt(pts, i))
    IN IF cand = {} THEN -1
       ELSE CHOOSE i \in cand :
              \A j \in cand : d(i) < d(j) \/ (d(i) = d(j) /\ i <= j)

\* maxRadius of nearestNeighbor, squared: (2 * max(|max x|, |max y|))^2, the
\* maxima taken by reduce from 0
MaxRadiusSquared(pts) ==
    LET m == Max(MaxOf(XsOf(pts) \cup {0}), MaxOf(YsOf(pts) \cup {0}))
    IN 4 * m * m

RECURSIVE NearestSpatial(_, _, _, _, _)
\* the spatial-index search of nearestNeighbor from radius gridSize * 2^k on:
\* doubling radii up to maxRadius, -1 when no radius finds an unvisited point
NearestSpatial(pts, gs2, cur, visited, k) ==
    IF ~RadiusWithin(gs2, k, MaxRadiusSquared(pts)) THEN -1
    ELSE LET cand == findInRadius(pts, gs2, Pt(pts, cur), k) \ visited
             d(i) == Dist2(Pt(pts, cur), Pt(pts, i))
         IN IF cand = {} THEN NearestSpatial(pts, gs2, cur, visited, k + 1)
            ELSE CHOOSE i \in cand :
                   \A j \in cand :
                      d(i) < d(j) \/ (d(i) = d(j) /\ ListedBefore(pts, gs2, i, j))

\* useSpatialIndex
useSpatialIndex(pts) == Len(pts) > SpatialThreshold

RECURSIVE NearestNeighborLoop(_, _, _, _)
\* the while loop of nearestNeighbor.  The result is [threw, tour]: reading
\* points[currentIndex] of an index outside the array gives undefined, and the
\* first distance taken from it throws a TypeError.
NearestNeighborLoop(pts, cur, visited, t) ==
    IF Cardinality(visited) >= Len(pts) THEN [threw |-> FALSE, tour |-> t]
    ELSE IF cur \notin Indices(pts)
         THEN IF useSpatialIndex(pts)
                 /\ ~RadiusWithin(GridSizeSquared(pts), 0, MaxRadiusSquared(pts))
              THEN [threw |-> FALSE, tour |-> t]
              ELSE [threw |-> TRUE, tour |-> <<>>]
    ELSE LET nearestIndex ==
                 IF useSpatialIndex(pts)
                 THEN NearestSpatial(pts, GridSizeSquared(pts), cur, visited, 0)
                 ELSE NearestBruteForce(pts, cur, visited)
         IN IF nearestIndex = -1 THEN [threw |-> FALSE, tour |-> t]
            ELSE NearestNeighborLoop(pts, nearestIndex,
                                     visited \cup {nearestIndex},
                                     Append(t, nearestIndex))

\* a nearestNeighbor without its return for an empty point array: the tour
\* starts at startIndex whether or not there is such a point
nearestNeighborNoEmptyCase(pts, startIndex) ==
    IF Len(pts) = 1 THEN [threw |-> FALSE, tour |-> <<0>>]
    ELSE NearestNeighborLoop(pts, startIndex, {startIndex}, <<startIndex>>)

\* nearestNeighbor(points, startIndex)
nearestNeighbor(pts, startIndex) ==
    IF Len(pts) = 0 THEN [threw |-> FALSE, tour |-> <<>>]
    ELSE IF Len(pts) = 1 THEN [threw |-> FALSE, tour |-> <<0>>]
    ELSE NearestNeighborLoop(pts, startIndex, {startIndex}, <<startIndex>>)

\* maxIterations of twoOpt
MaxIterations == 1000

\* [...t.slice(0, i), ...t.slice(i, j + 1).reverse(), ...t.slice(j + 1)], for
\* 0-based positions i <= j
ReverseSegment(t, i, j) ==
    [k \in 1..Len(t) |-> IF k - 1 < i \/ k - 1 > j THEN t[k] ELSE t[i + j - (k - 1) + 1]]

\* a twoOpt test with the comparison turned round: newDist > currentDist
SwapImprovesInverted(t, pts, i, j) ==
    distance(Pt(pts, t[i]), Pt(pts, t[j + 1])) + distance(Pt(pts, t[i + 1]), Pt(pts, t[j + 2]))
        > distance(Pt(pts, t[i]), Pt(pts, t[i + 1])) + distance(Pt(pts, t[j + 1]), Pt(pts, t[j + 2]))

\* the test of twoOpt on positions i, j: newDist < currentDist
SwapImproves(t, pts, i, j) ==
    LET A == Pt(pts, t[i])
        B == Pt(pts, t[i + 1])
        C == Pt(pts, t[j + 1])
        D == Pt(pts, t[j + 2])
    IN distance(A, C) + distance(B, D) < distance(A, B) + distance(C, D)

RECURSIVE TwoOptPass(_, _, _, _, _)
\* one pass of the nested for loops of twoOpt from positions (i, j) on;
\* [tour, improved]
TwoOptPass(best, pts, i, j, improved) ==
    IF i >= Len(best) - 2 THEN [tour |-> best, improved |-> improved]
    ELSE IF j >= Len(best) - 1 THEN TwoOptPass(best, pts, i + 1, i + 2, improved)
    ELSE IF SwapImproves(best, pts, i, j)
         THEN TwoOptPass(ReverseSegment(best, i, j), pts, i, j + 1, TRUE)
         ELSE TwoOptPass(best, pts, i, j + 1, improved)

RECURSIVE TwoOptLoop(_, _, _, _)
\* the while loop of twoOpt: passes until none improves or the cap is reached
TwoOptLoop(best, pts, iterations, maxIterations) ==
    IF iterations >= maxIterations THEN best
    ELSE LET pass == TwoOptPass(best, pts, 1, 2, FALSE)
         IN IF pass.improved
            THEN TwoOptLoop(pass.tour, pts, iterations + 1, maxIterations)
            ELSE pass.tour

\* twoOpt(tour, points, maxIterations)
twoOpt(t, pts, maxIterations) ==
    IF Len(t) < 4 THEN t ELSE TwoOptLoop(t, pts, 0, maxIterations)

\* solveTSP(points, {startIndex, optimize}); [threw, tour, initial], initial
\* being the nearest-neighbor tour
solveTSP(pts, startIndex, optimize) ==
    LET nn == nearestNeighbor(pts, startIndex)
    IN IF nn.threw THEN [threw |-> TRUE, tour |-> <<>>, initial |-> <<>>]
       ELSE [threw |-> FALSE,
             tour |-> IF optimize /\ Len(nn.tour) >= 4
                      THEN twoOpt(nn.tour, pts, MaxIterations) ELSE nn.tour,
             initial |-> nn.tour]
-----------------------------------------------------------------------------
(* Paint tracker: gcode/refillTracker.js                                   *)
(*                                                                         *)
(* Units.  An area is counted in 1/DistScale mm2, a thickness in 1/10 mm,  *)
(* and a volume (capacity, remaining, consumed) in their product, which is *)
(* 1/(10000 * DistScale) ml: volume = area * thickness / 1000 of the source *)
(* is area * thickness here.                                               *)

\* a JavaScript value handed to reset or addUsage: its typeof and, for a
\* number, its value
Num(v) == [type |-> "number", value |-> v]
NotNum(t) == [type |-> t, value |-> 0]

\* the tracker after the constructor
NewTracker ==
    [paintCapacity |-> 0, remainingCapacity |-> 0, consumedPaint |-> 0, refillCount |-> 0]

\* a reset guard that lets zero through: paintCapacity < 0
ResetRejectsNegativeOnly(paintCapacity) ==
    paintCapacity.type # "number" \/ paintCapacity.value < 0

\* the guard of reset: typeof paintCapacity !== 'number' || paintCapacity <= 0
ResetRejects(paintCapacity) ==
    paintCapacity.type # "number" \/ paintCapacity.value <= 0

\* reset(paintCapacity); [threw, error, tracker]
reset(t, paintCapacity) ==
    IF ResetRejects(paintCapacity)
    THEN [threw |-> TRUE, error |-> "Paint capacity must be a positive number", tracker |-> t]
    ELSE [threw |-> FALSE, error |-> "",
          tracker |-> [paintCapacity |-> paintCapacity.value,
                       remainingCapacity |-> paintCapacity.value,
                       consumedPaint |-> 0,
                       refillCount |-> 0]]

\* a needsRefill with a strict comparison: remaining < capacity * 0.1
needsRefillStrict(t) == 10 * t.remainingCapacity < t.paintCapacity

\* needsRefill() at the default threshold 0.1: remaining <= capacity * 0.1
needsRefill(t) == 10 * t.remainingCapacity <= t.paintCapacity

\* addUsage(area, thickness); [threw, tracker, needsRefill]
addUsage(t, area, thickness) ==
    IF area.type # "number" \/ area.value < 0
    THEN [threw |-> TRUE, tracker |-> t, needsRefill |-> FALSE]
    ELSE LET volume == area.value * thickness
             used == [t EXCEPT !.remainingCapacity = @ - volume,
                               !.consumedPaint = @ + volume]
         IN [threw |-> FALSE, tracker |-> used, needsRefill |-> needsRefill(used)]

\* addLineUsage(length, width, thickness): length in 1/DistScale mm, width in mm
addLineUsage(t, length, width, thickness) == addUsage(t, Num(length * width), thickness)

\* the area Math.PI * radius * radius of a dot of the given diameter in mm,
\* Math.PI taken as 355/113
DotArea(diameter) == (355 * diameter * diameter * DistScale) \div (113 * 4)

\* addDotUsage(diameter, thickness)
addDotUsage(t, diameter, thickness) == addUsage(t, Num(DotArea(diameter)), thickness)

\* a refill that adds a canful to what is left: remaining += capacity
refillTopUp(t) ==
    [t EXCEPT !.remainingCapacity = @ + t.paintCapacity, !.refillCount = @ + 1]

\* refill()
refill(t) ==
    [t EXCEPT !.remainingCapacity = t.paintCapacity, !.refillCount = @ + 1]

-----------------------------------------------------------------------------
(* Coordinate transformer: gcode/coordinateTransformer.js                  *)
(*                                                                         *)
(* Physical coordinates and cable lengths are kept in 1/100 mm, the two    *)
(* decimals that scaleToPhysical and cartesianToTrilateration round to.    *)

\* Math.round(num / den) for den > 0
RoundDiv(num, den) == (2 * num + den) \div (2 * den)

\* Math.round(Math.sqrt(n)) for an integer n >= 0
RoundSqrt(n) == LET r == ISqrt(n) IN IF n > r * r + r THEN r + 1 ELSE r

\* v || fallback for a number v
OrElse(v, fallback) == IF v = 0 THEN fallback ELSE v

\* createAnchorConfig(canvasState): the three anchors in mm, the anchor
\* objects of the canvas state being present
createAnchorConfig(canvasState) ==
    LET bottomCenterX2 == OrElse(canvasState.anchorBottomLeft.x, 0)
                              + OrElse(canvasState.anchorBottomRight.x, canvasState.width)
        bottomCenterY == OrElse(canvasState.anchorBottomLeft.y, canvasState.height)
    IN [topLeft |-> [x |-> OrElse(canvasState.anchorTopLeft.x, 0) * 10,
                     y |-> OrElse(canvasState.anchorTopLeft.y, 0) * 10],
        topRight |-> [x |-> OrElse(canvasState.anchorTopRight.x, canvasState.width) * 10,
                      y |-> OrElse(canvasState.anchorTopRight.y, 0) * 10],
        bottomCenter |-> [x |-> bottomCenterX2 * 5, y |-> bottomCenterY * 10]]

\* scaleToPhysical for positive image and physical dimensions (mm); the
\* result is in 1/100 mm
scaleToPhysical(pixelX, pixelY, imageWidth, imageHeight, physicalWidth, physicalHeight) ==
    [x |-> RoundDiv(pixelX * physicalWidth * 100, imageWidth),
     y |-> RoundDiv(pixelY * physicalHeight * 100, imageHeight)]

\* the rounded distance, in 1/100 mm, of the point (x, y) given in 1/100 mm
\* from an anchor given in mm
CableLength(anchor, x, y) ==
    RoundSqrt((anchor.x * 100 - x) * (anchor.x * 100 - x)
                  + (anchor.y * 100 - y) * (anchor.y * 100 - y))

\* cartesianToTrilateration(x, y, anchors): no test of the anchor geometry is
\* made here, only of the presence of the three anchors
cartesianToTrilateration(x, y, anchors) ==
    [X |-> CableLength(anchors.topLeft, x, y),
     Y |-> CableLength(anchors.topRight, x, y),
     Z |-> CableLength(anchors.bottomCenter, x, y)]

-----------------------------------------------------------------------------
(* G-code builder: gcode/gcodeBuilder.js                                   *)
(*                                                                         *)
(* A line of the stream is a record: its command word, the X Y Z words in  *)
(* 1/100 (toFixed(2)), the F word, the P word in 1/10 s (toFixed(1)), and  *)
(* for a comment its text and the number it mentions.                      *)

Cmd(op, X, Y, Z, F, P, text, n) ==
    [op |-> op, X |-> X, Y |-> Y, Z |-> Z, F |-> F, P |-> P, text |-> text, n |-> n]

G0(X, Y, Z, feedRate) == Cmd("G0", X, Y, Z, feedRate, 0, "", 0)
G1(X, Y, Z, feedRate) == Cmd("G1", X, Y, Z, feedRate, 0, "", 0)
M3 == Cmd("M3", 0, 0, 0, 0, 0, "S255", 0)
M5 == Cmd("M5", 0, 0, 0, 0, 0, "", 0)
M6 == Cmd("M6", 0, 0, 0, 0, 0, "", 0)
G4(tenths) == Cmd("G4", 0, 0, 0, 0, tenths, "", 0)
G28 == Cmd("G28", 0, 0, 0, 0, 0, "", 0)
\* G20 (inches) where the preamble sets millimetres
G20 == Cmd("G20", 0, 0, 0, 0, 0, "", 0)
G21 == Cmd("G21", 0, 0, 0, 0, 0, "", 0)
G90 == Cmd("G90", 0, 0, 0, 0, 0, "", 0)
M84 == Cmd("M84", 0, 0, 0, 0, 0, "", 0)

\* comment(text): "; text"
comment(text, n) == Cmd("comment", 0, 0, 0, 0, 0, text, n)

\* separator(label): "; === label ==="
separator(label, n) == Cmd("separator", 0, 0, 0, 0, 0, label, n)

\* the empty string pushed between the sections
Blank == Cmd("blank", 0, 0, 0, 0, 0, "", 0)

\* commentBlock(title, lines): a rule, the title, the lines and a rule; the
\* block is one array element holding several lines of the joined stream
commentBlock(title, details) ==
    <<separator("", 0), comment(title, 0)>> \o details \o <<separator("", 0)>>

\* a paintDot that leaves the nozzle on after the dwell
paintDotNoStop(X, Y, Z, dwellTime, moveSpeed) ==
    <<G0(X, Y, Z, moveSpeed), M3, G4(dwellTime)>>

\* paintDot(X, Y, Z, dwellTime, moveSpeed)
paintDot(X, Y, Z, dwellTime, moveSpeed) ==
    <<G0(X, Y, Z, moveSpeed), M3, G4(dwellTime), M5>>

-----------------------------------------------------------------------------
(* Scanline planner: algorithms/scanlinePlanner.js                         *)

RECURSIVE SortedSeq(_, _)
\* the elements of a finite set as a sequence in ascending order of key[_],
\* a function giving the elements distinct integers
SortedSeq(S, key) ==
    IF S = {} THEN <<>>
    ELSE LET first == CHOOSE a \in S : \A b \in S : key[a] <= key[b]
         IN <<first>> \o SortedSeq(S \ {first}, key)

RECURSIVE Flatten(_)
\* the concatenation of a sequence of sequences
Flatten(ss) == IF ss = <<>> THEN <<>> ELSE Head(ss) \o Flatten(Tail(ss))

\* the maximal runs [a, b] of matching pixels in row y of a mask
RowRuns(mask, y) ==
    LET xs == {m.x : m \in {q \in mask : q.y = y}}
    IN {r \in [a : xs, b : xs] :
          /\ r.a <= r.b
          /\ \A x \in r.a..r.b : x \in xs
          /\ (r.a - 1) \notin xs
          /\ (r.b + 1) \notin xs}

\* the segment planBidirectionalScanlines pushes for the run [a, b] of row y:
\* even rows are scanned left to right, odd rows right to left; a run that
\* reaches the end of its scan is closed after the loop
RowSegment(r, y, width) ==
    LET leftToRight == y % 2 = 0
    IN IF leftToRight
       THEN [startX |-> r.a, startY |-> y, endX |-> r.b, endY |-> y,
             length |-> IF r.b = width - 1 THEN Abs(width - r.a) ELSE Abs((r.b + 1) - r.a),
             reversed |-> FALSE]
       ELSE [startX |-> r.a, startY |-> y, endX |-> r.b, endY |-> y,
             length |-> IF r.a = 0 THEN Abs(0 - r.b) ELSE Abs((r.a - 1) - r.b),
             reversed |-> TRUE]

\* the segments of row y in the order of the scan
RowSegments(mask, y, width) ==
    LET runs == RowRuns(mask, y)
        ordered == IF y % 2 = 0 THEN SortedSeq(runs, [r \in runs |-> r.a])
                                ELSE SortedSeq(runs, [r \in runs |-> 0 - r.a])
    IN [i \in 1..Len(ordered) |-> RowSegment(ordered[i], y, width)]

\* planBidirectionalScanlines(imageData, [255, 255, 255], 10, 'horizontal') on
\* the image generateStrokesGcode builds: a pixel matches exactly when it was
\* marked (opaque white), an unmarked pixel has alpha 0
planBidirectionalScanlines(mask, width, height) ==
    Flatten([row \in 1..height |-> RowSegments(mask, row - 1, width)])

\* the candidate (index, reversed) the greedy searches of optimizeScanlineOrder
\* and optimizeContourOrder settle on: the least distance from currentPos,
\* the first found winning ties (index ascending, start before end)
NearestEnd(starts, ends, remaining, currentPos) ==
    LET cands == {[index |-> i, reversed |-> r] : i \in remaining, r \in BOOLEAN}
        key(c) == Dist2(currentPos, IF c.reversed THEN ends[c.index] ELSE starts[c.index])
        first(c, d) == \/ c.index < d.index
                       \/ (c.index = d.index /\ (~c.reversed \/ d.reversed))
    IN CHOOSE c \in cands :
          \A d \in cands : key(c) < key(d) \/ (key(c) = key(d) /\ first(c, d))

RECURSIVE GreedyOrder(_, _, _, _)
\* the while loop of optimizeScanlineOrder / optimizeContourOrder: a sequence
\* of [index, reversed]
GreedyOrder(starts, ends, remaining, currentPos) ==
    IF remaining = {} THEN <<>>
    ELSE LET best == NearestEnd(starts, ends, remaining, currentPos)
             bestEndPos == IF best.reversed THEN starts[best.index] ELSE ends[best.index]
         IN <<best>> \o GreedyOrder(starts, ends, remaining \ {best.index}, bestEndPos)

\* optimizeScanlineOrder(segments, startPos)
optimizeScanlineOrder(segments, startPos) ==
    IF Len(segments) = 0 THEN <<>>
    ELSE IF Len(segments) = 1 THEN <<[segments[1] EXCEPT !.reversed = FALSE]>>
    ELSE LET starts == [i \in 1..Len(segments) |-> [x |-> segments[i].startX, y |-> segments[i].startY]]
             ends == [i \in 1..Len(segments) |-> [x |-> segments[i].endX, y |-> segments[i].endY]]
             order == GreedyOrder(starts, ends, 1..Len(segments), startPos)
         IN [k \in 1..Len(order) |->
                [segments[order[k].index] EXCEPT !.reversed = order[k].reversed]]

-----------------------------------------------------------------------------
(* Edge tracer: algorithms/edgeTracer.js *)

\* optimizeContourOrder(polylines, startPos): a sequence of [points, reversed]
optimizeContourOrder(polylines, startPos) ==
    IF Len(polylines) = 0 THEN <<>>
    ELSE IF Len(polylines) = 1 THEN <<[points |-> polylines[1], reversed |-> FALSE]>>
    ELSE LET starts == [i \in 1..Len(polylines) |-> polylines[i][1]]
             ends == [i \in 1..Len(polylines) |-> polylines[i][Len(polylines[i])]]
             order == GreedyOrder(starts, ends, 1..Len(polylines), startPos)
         IN [k \in 1..Len(order) |->
                [points |-> IF order[k].reversed THEN Reverse(polylines[order[k].index])
                                                 ELSE polylines[order[k].index],
                 reversed |-> order[k].reversed]]

\* the length the generator sums over a polyline, in 1/DistScale
PolylineLength(pts) ==
    IF Len(pts) < 2 THEN 0
    ELSE SeqSum([j \in 1..(Len(pts) - 1) |-> distance(pts[j], pts[j + 1])])

-----------------------------------------------------------------------------
(* G-code generator: gcode/gcodeGenerator.js                               *)
(*                                                                         *)
(* The emitting methods are operators on a run record st = [lines,         *)
(* tracker, currentPosition, signals, planned]: the lines emitted so far,  *)
(* the run's tracker, the generator's _currentPosition, and two history    *)
(* counters, the usage calls that returned true and the primitives         *)
(* planned.                                                                *)

\* _currentPosition: null, or a pixel position
NoPosition == [set |-> FALSE, x |-> 0, y |-> 0]
At(x, y) == [set |-> TRUE, x |-> x, y |-> y]

\* generateHeader(config)
generateHeader(config) ==
    commentBlock("MURALBOT G-CODE",
                 <<comment("Generated", 0),
                   comment("Canvas", config.canvas.width),
                   comment("Painting Mode", 0),
                   comment("Paint Capacity", 0),
                   comment("Move Speed", config.robot.moveSpeed),
                   comment("Paint Speed", config.robot.paintSpeed)>>)
    \o <<Blank, separator("INITIALIZATION", 0), G21, G90, G28, M5,
         comment("Ready to paint", 0)>>

\* a footer that leaves the homing out
generateFooterNoHoming ==
    <<Blank, separator("END SEQUENCE", 0), M5, M84, comment("End of G-Code", 0)>>

\* generateFooter()
generateFooter ==
    <<Blank, separator("END SEQUENCE", 0), M5, G28, M84, comment("End of G-Code", 0)>>

\* the refill position (cm in the config) in cable lengths
RefillCoords(config, anchors) ==
    cartesianToTrilateration(config.robot.refillPosition.x * 10 * 100,
                             config.robot.refillPosition.y * 10 * 100, anchors)

\* a refill sequence without its dwell
generateRefillSequenceNoDwell(currentPos, config, anchors) ==
    LET refillCoords == RefillCoords(config, anchors)
    IN <<separator("REFILL SEQUENCE", 0),
         comment("Moving to refill position", 0),
         G0(refillCoords.X, refillCoords.Y, refillCoords.Z, config.robot.moveSpeed),
         comment("Returning to painting", 0),
         G0(currentPos.X, currentPos.Y, currentPos.Z, config.robot.moveSpeed)>>

\* generateRefillSequence(currentPos, config, anchors)
generateRefillSequence(currentPos, config, anchors) ==
    LET refillCoords == RefillCoords(config, anchors)
    IN <<separator("REFILL SEQUENCE", 0),
         comment("Moving to refill position", 0),
         G0(refillCoords.X, refillCoords.Y, refillCoords.Z, config.robot.moveSpeed),
         comment("Waiting for refill (30 seconds)", 0),
         G4(300),
         comment("Returning to painting", 0),
         G0(currentPos.X, currentPos.Y, currentPos.Z, config.robot.moveSpeed)>>

\* generateColorChangeSequence(config, anchors)
generateColorChangeSequence(config, anchors) ==
    LET changeCoords == RefillCoords(config, anchors)
    IN <<separator("COLOR CHANGE", 0),
         M6,
         comment("Moving to change position", 0),
         G0(changeCoords.X, changeCoords.Y, changeCoords.Z, config.robot.moveSpeed),
         comment("Waiting for can change (60 seconds)", 0),
         G4(600),
         comment("Ready to continue", 0)>>

\* a layer test that changes the can before the first layer too
NeedsColorChangeAlways(layerIndex) == layerIndex >= 0

\* the test of generateLayerGcode: layerIndex > 0
NeedsColorChange(layerIndex) == layerIndex > 0

\* _extractPixelCoordinates(imageData): the opaque pixels row by row
extractPixelCoordinates(imageData) ==
    SortedSeq(imageData.opaque,
              [p \in imageData.opaque |-> p.y * imageData.width + p.x])

\* the grid spacing of _downsamplePixels:
\* Math.max(1, Math.floor(Math.sqrt(10000 / density)))
Spacing(density) == Max(1, ISqrt(10000 \div density))

\* _downsamplePixels(pixels, imageWidth, imageHeight, density): the first
\* pixel of each spacing x spacing cell, in the order the cells are met
downsamplePixels(pixels, density) ==
    LET spacing == Spacing(density)
        cell(p) == <<p.x \div spacing, p.y \div spacing>>
        keep == {i \in 1..Len(pixels) :
                    \A j \in 1..(i - 1) : cell(pixels[j]) # cell(pixels[i])}
        kept == SortedSeq(keep, [i \in keep |-> i])
    IN [k \in 1..Len(kept) |-> pixels[kept[k]]]

\* the start index generatePointillismGcode hands to solveTSP: the index, in
\* pixels, of the pixel closest to _currentPosition
StartIndex(pixels, currentPosition) ==
    IF currentPosition.set /\ Len(pixels) > 0
    THEN LET d(i) == Dist2(Pt(pixels, i), currentPosition)
         IN CHOOSE i \in Indices(pixels) :
               \A j \in Indices(pixels) : d(i) < d(j) \/ (d(i) = d(j) /\ i <= j)
    ELSE 0

\* the tour solveTSP returned turned into the order of the dots; an index of
\* the tour that is not an index of sampledPixels makes the painting loop
\* read a property of undefined
PlanTour(sampledPixels, r) ==
    IF r.threw \/ (\E k \in 1..Len(r.tour) : r.tour[k] \notin Indices(sampledPixels))
    THEN [threw |-> TRUE, lines |-> <<>>, order |-> <<>>]
    ELSE [threw |-> FALSE,
          lines |-> <<comment("Painting dots", Len(sampledPixels)),
                      comment("Optimizing dot order using TSP...", 0),
                      comment("Tour optimized", Len(r.tour))>>,
          order |-> [k \in 1..Len(r.tour) |-> Pt(sampledPixels, r.tour[k])]]

\* the order of the sampled pixels: the order of the grid above DotCap dots,
\* the tour of solveTSP otherwise, improved by 2-opt below OptimizeBelow dots
PlanSampled(sampledPixels, startIndex) ==
    IF Len(sampledPixels) > DotCap
    THEN [threw |-> FALSE,
          lines |-> <<comment("Painting dots", Len(sampledPixels)),
                      comment("Using grid order (too many dots for TSP optimization)", 0)>>,
          order |-> sampledPixels]
    ELSE PlanTour(sampledPixels,
                  solveTSP(sampledPixels, startIndex, Len(sampledPixels) < OptimizeBelow))

\* generatePointillismGcode up to its painting loop: [threw, lines, order],
\* order being the pixels in the order they will be painted; the start index
\* is searched in pixels and used in sampledPixels
PlanDots(pixels, config, currentPosition) ==
    PlanSampled(downsamplePixels(pixels, config.paint.pointillism.dotDensity),
                StartIndex(pixels, currentPosition))

\* the lines and the tracker after a usage call returned needsRefill: the
\* refill sequence is emitted and refill() called exactly when it is true
AfterUsage(st, u, returnTo, config, anchors) ==
    [st EXCEPT
        !.lines = IF u.needsRefill
                  THEN @ \o <<comment("Paint low - refill needed", 0)>>
                         \o generateRefillSequence(returnTo, config, anchors)
                  ELSE @,
        !.tracker = IF u.needsRefill THEN refill(u.tracker) ELSE u.tracker,
        !.signals = IF u.needsRefill THEN @ + 1 ELSE @]

\* _paintSingleDot: dotSize is the diameter Math.random() picked
paintSingleDot(st, pixel, imageData, config, anchors, dotSize) ==
    LET physical == scaleToPhysical(pixel.x, pixel.y, imageData.width, imageData.height,
                                    config.canvas.width * 10, config.canvas.height * 10)
        coords == cartesianToTrilateration(physical.x, physical.y, anchors)
        used == AfterUsage(st, addDotUsage(st.tracker, dotSize, 1), coords, config, anchors)
    IN [used EXCEPT
          !.lines = @ \o paintDot(coords.X, coords.Y, coords.Z, 1, config.robot.moveSpeed),
          !.currentPosition = At(pixel.x, pixel.y)]

\* one pass of the painting loop of generateStrokesGcode
paintSegment(st, segment, imageData, config, anchors) ==
    LET startX == IF segment.reversed THEN segment.endX ELSE segment.startX
        startY == IF segment.reversed THEN segment.endY ELSE segment.startY
        endX == IF segment.reversed THEN segment.startX ELSE segment.endX
        endY == IF segment.reversed THEN segment.startY ELSE segment.endY
        physicalStart == scaleToPhysical(startX, startY, imageData.width, imageData.height,
                                         config.canvas.width * 10, config.canvas.height * 10)
        physicalEnd == scaleToPhysical(endX, endY, imageData.width, imageData.height,
                                       config.canvas.width * 10, config.canvas.height * 10)
        coordsStart == cartesianToTrilateration(physicalStart.x, physicalStart.y, anchors)
        coordsEnd == cartesianToTrilateration(physicalEnd.x, physicalEnd.y, anchors)
        used == AfterUsage(st,
                           addLineUsage(st.tracker, segment.length * DistScale,
                                        config.paint.strokes.strokeWidth, 1),
                           coordsStart, config, anchors)
    IN [used EXCEPT
          !.lines = @ \o <<G0(coordsStart.X, coordsStart.Y, coordsStart.Z, config.robot.moveSpeed),
                           M3,
                           G1(coordsEnd.X, coordsEnd.Y, coordsEnd.Z, config.robot.paintSpeed),
                           M5>>,
          !.currentPosition = At(endX, endY)]

RECURSIVE PaintSegments(_, _, _, _, _)
PaintSegments(st, segments, imageData, config, anchors) ==
    IF segments = <<>> THEN st
    ELSE PaintSegments(paintSegment(st, Head(segments), imageData, config, anchors),
                       Tail(segments), imageData, config, anchors)

\* generateStrokesGcode: the whole layer is emitted without an await
generateStrokesGcode(st, pixels, imageData, config, anchors) ==
    LET segments == planBidirectionalScanlines(Range(pixels), imageData.width, imageData.height)
        startPos == IF st.currentPosition.set THEN st.currentPosition ELSE [x |-> 0, y |-> 0]
        orderedSegments == optimizeScanlineOrder(segments, startPos)
        planned == [st EXCEPT
                      !.lines = @ \o <<comment("Painting strokes", Len(pixels)),
                                       comment("Planning scanline paths...", 0),
                                       comment("Found stroke segments", Len(segments)),
                                       comment("Optimizing stroke order...", 0),
                                       comment("Optimized segments", Len(orderedSegments))>>,
                      !.planned = @ + Len(orderedSegments)]
    IN PaintSegments(planned, orderedSegments, imageData, config, anchors)

\* the cable lengths of a pixel of the edge map
EdgeCoords(point, edgeMap, config, anchors) ==
    LET physical == scaleToPhysical(point.x, point.y, edgeMap.width, edgeMap.height,
                                    config.canvas.width * 10, config.canvas.height * 10)
    IN cartesianToTrilateration(physical.x, physical.y, anchors)

\* one pass of the painting loop of generateEdgeMapGcode: contour i of n.  The
\* usage is added, and a refill emitted, after the contour has been painted.
paintPolyline(st, pts, i, n, edgeMap, config, anchors) ==
    IF Len(pts) < 2 THEN st
    ELSE LET start == EdgeCoords(pts[1], edgeMap, config, anchors)
             draw == [j \in 1..(Len(pts) - 1) |->
                         LET c == EdgeCoords(pts[j + 1], edgeMap, config, anchors)
                         IN G1(c.X, c.Y, c.Z, config.robot.paintSpeed)]
             painted == [st EXCEPT
                           !.lines = @ \o <<comment("Contour", i),
                                            G0(start.X, start.Y, start.Z, config.robot.moveSpeed),
                                            M3>>
                                       \o draw \o <<M5>>,
                           !.currentPosition = At(pts[Len(pts)].x, pts[Len(pts)].y)]
         IN AfterUsage(painted,
                       addLineUsage(painted.tracker, PolylineLength(pts), 1, 1),
                       EdgeCoords(pts[Len(pts)], edgeMap, config, anchors), config, anchors)

RECURSIVE PaintPolylines(_, _, _, _, _, _)
PaintPolylines(st, ordered, i, edgeMap, config, anchors) ==
    IF i > Len(ordered) THEN st
    ELSE PaintPolylines(paintPolyline(st, ordered[i].points, i, Len(ordered),
                                      edgeMap, config, anchors),
                        ordered, i + 1, edgeMap, config, anchors)

\* generateEdgeMapGcode: edgeMap.traced is what traceEdges(edgeMap, {threshold:
\* 128, minLength: 5, simplifyTolerance: 2}) returns
generateEdgeMapGcode(st, edgeMap, config, anchors) ==
    LET polylines == edgeMap.traced
        head == [st EXCEPT
                   !.lines = @ \o <<separator("EDGE TRACING", 0),
                                    comment("Image", edgeMap.width),
                                    comment("Tracing edge contours...", 0),
                                    comment("Found contours", Len(polylines))>>]
    IN IF Len(polylines) = 0
       THEN [head EXCEPT !.lines = @ \o <<comment("No edges found to trace", 0)>>]
       ELSE LET startPos == IF st.currentPosition.set THEN st.currentPosition
                                                      ELSE [x |-> 0, y |-> 0]
                orderedPolylines == optimizeContourOrder(polylines, startPos)
                planned == [head EXCEPT
                              !.lines = @ \o <<comment("Optimizing contour order...", 0),
                                               comment("Optimized contours", Len(orderedPolylines))>>,
                              !.planned = @ + Cardinality({k \in 1..Len(orderedPolylines) :
                                                             Len(orderedPolylines[k].points) >= 2})]
            IN PaintPolylines(planned, orderedPolylines, 1, edgeMap, config, anchors)

\* the lines generateLayerGcode emits before it dispatches on the mode: the
\* separator, two comments and, for every layer but the first, the color
\* change
LayerHead(st, pixelCount, layerIndex, config, anchors) ==
    [st EXCEPT !.lines = @ \o <<separator("COLOR LAYER", layerIndex + 1),
                                comment("Color", 0),
                                comment("Pixels", pixelCount)>>
                           \o (IF NeedsColorChange(layerIndex)
                               THEN generateColorChangeSequence(config, anchors)
                               ELSE <<>>)]

\* generatePointillismGcode up to the first suspension of its painting
\* loop: the plan, and the first dot if there is one
StartDots(head, plan, imageData, config, anchors, dotSize) ==
    IF plan.threw THEN [threw |-> TRUE, st |-> head, queue |-> <<>>]
    ELSE IF plan.order = <<>>
    THEN [threw |-> FALSE, st |-> [head EXCEPT !.lines = @ \o plan.lines], queue |-> <<>>]
    ELSE [threw |-> FALSE,
          st |-> paintSingleDot([head EXCEPT !.lines = @ \o plan.lines,
                                             !.planned = @ + Len(plan.order)],
                                Head(plan.order), imageData, config, anchors, dotSize),
          queue |-> Tail(plan.order)]

\* the dispatch of generateLayerGcode on the painting mode; a mode other
\* than pointillism and strokes emits nothing
LayerBody(head, pixels, layer, config, anchors, dotSize) ==
    IF config.paint.paintingMode = "pointillism"
    THEN StartDots(head, PlanDots(pixels, config, head.currentPosition),
                   layer.imageData, config, anchors, dotSize)
    ELSE IF config.paint.paintingMode = "strokes"
    THEN [threw |-> FALSE,
          st |-> generateStrokesGcode(head, pixels, layer.imageData, config, anchors),
          queue |-> <<>>]
    ELSE [threw |-> FALSE, st |-> head, queue |-> <<>>]

\* generateLayerGcode up to its first await that suspends: the layer header,
\* the color change, and then the whole layer (strokes) or the plan of the
\* dots and the first dot (pointillism).  [threw, st, queue], queue being the
\* dots still to paint.
StartLayer(st, layer, layerIndex, config, anchors, dotSize) ==
    LET pixels == extractPixelCoordinates(layer.imageData)
    IN LayerBody(LayerHead(st, Len(pixels), layerIndex, config, anchors),
                 pixels, layer, config, anchors, dotSize)

-----------------------------------------------------------------------------
(* Coordinate transformer: the forward transform on whole millimetres,     *)
(* and the inverse transform                                               *)

\* Math.floor(100 * Math.sqrt(n)): the two decimals cut off, not rounded
FloorSqrtHundredths(n) ==
    LET r == ISqrt(n)
        rest == 10000 * (n - r * r)
    IN 100 * r + (CHOOSE k \in 0..99 :
                     /\ 200 * r * k + k * k <= rest
                     /\ k = 99 \/ 200 * r * (k + 1) + (k + 1) * (k + 1) > rest)

\* Math.round(100 * Math.sqrt(n)) for an integer n >= 0: the square root
\* rounded to two decimals, in hundredths.  The two decimals are found on
\* the remainder n - r * r, so that 10000 * n is never formed.
RoundSqrtHundredths(n) ==
    LET r == ISqrt(n)
        rest == 10000 * (n - r * r)
        k == CHOOSE k \in 0..99 :
                /\ 200 * r * k + k * k <= rest
                /\ k = 99 \/ 200 * r * (k + 1) + (k + 1) * (k + 1) > rest
        low == 100 * r + k
    IN IF rest - (200 * r * k + k * k) > low THEN low + 1 ELSE low

\* cartesianToTrilateration(x, y, anchors) for a point and anchors in whole
\* mm; X, Y, Z in 1/100 mm
cartesianToTrilaterationMm(x, y, anchors) ==
    [X |-> RoundSqrtHundredths(Dist2(anchors.topLeft, [x |-> x, y |-> y])),
     Y |-> RoundSqrtHundredths(Dist2(anchors.topRight, [x |-> x, y |-> y])),
     Z |-> RoundSqrtHundredths(Dist2(anchors.bottomCenter, [x |-> x, y |-> y]))]

\* what trilaterationToCartesian returns when it returns no point
NoPoint == [threw |-> FALSE, null |-> TRUE, x |-> 0, y |-> 0]

\* trilaterationToCartesian(X, Y, Z, anchors): X, Y, Z and the result in
\* 1/100 mm, the anchors in mm, the distance d of the top anchors a whole
\* number of mm.  x = (X*X - Y*Y + d*d) / (2*d) is kept as q + r / (2*d), and
\* fourY2 is the largest integer not above 4 * ySquared (the fraction is
\* rounded up before it is subtracted), which decides both ySquared < 0 and
\* Math.round(Math.sqrt(ySquared)).  Z is only compared for a console
\* warning.
trilaterationToCartesian(X, Y, Z, anchors) ==
    LET d == 100 * ISqrt(Dist2(anchors.topRight, anchors.topLeft))
        num == X * X - Y * Y + d * d
        q == num \div (2 * d)
        r == num % (2 * d)
        fourY2 == 4 * (X * X - q * q) + ((0 - (4 * d * q * r + r * r)) \div (d * d))
    IN IF d = 0 THEN [threw |-> TRUE, null |-> FALSE, x |-> 0, y |-> 0]
       ELSE IF fourY2 < 0 THEN NoPoint
       ELSE [threw |-> FALSE, null |-> FALSE,
             x |-> anchors.topLeft.x * 100 + RoundDiv(num, 2 * d),
             y |-> anchors.topLeft.y * 100 + (ISqrt(fourY2) + 1) \div 2]

-----------------------------------------------------------------------------
(* Scanline planner on image data with colors and alpha *)

\* matchesColor(imageData, x, y, width, targetColor, tolerance): a pixel with
\* alpha below 128 is skipped; colorDistance <= tolerance is compared on the
\* squares
matchesColor(imageData, x, y, width, targetColor, tolerance) ==
    LET px == imageData[y * width + x]
        dr == px.r - targetColor.r
        dg == px.g - targetColor.g
        db == px.b - targetColor.b
    IN IF px.a < 128 THEN FALSE
       ELSE dr * dr + dg * dg + db * db <= tolerance * tolerance

\* the pixels of an image for which matchesColor is true
MatchingPixels(imageData, targetColor, tolerance) ==
    {p \in [x : 0..(imageData.width - 1), y : 0..(imageData.height - 1)] :
        matchesColor(imageData.data, p.x, p.y, imageData.width, targetColor, tolerance)}

\* planHorizontalScanlines on the matching pixels: every row is scanned left
\* to right; a run ended by a pixel x that does not match has length
\* x - segmentStart, a run that reaches the end of the row width - segmentStart
planHorizontalScanlines(mask, width, height) ==
    LET Segment(r, y) ==
            [startX |-> r.a, startY |-> y, endX |-> r.b, endY |-> y,
             length |-> IF r.b = width - 1 THEN width - r.a ELSE (r.b + 1) - r.a]
        Row(y) ==
            LET runs == RowRuns(mask, y)
                ordered == SortedSeq(runs, [r \in runs |-> r.a])
            IN [i \in 1..Len(ordered) |-> Segment(ordered[i], y)]
    IN Flatten([row \in 1..height |-> Row(row - 1)])

-----------------------------------------------------------------------------
(* Edge tracer: simplifyPolyline *)

\* perpendicularDistance(point, lineStart, lineEnd), squared and multiplied by
\* the squared length of the line (by 1 when the line is a single point), so
\* that the distances of one call of simplifyPolyline compare exactly:
\* t is clamped to 0..1, so the distance is to lineStart, to lineEnd, or to
\* the foot of the perpendicular
perpendicularDistance(point, lineStart, lineEnd) ==
    LET dx == lineEnd.x - lineStart.x
        dy == lineEnd.y - lineStart.y
        lenSquared == dx * dx + dy * dy
        along == (point.x - lineStart.x) * dx + (point.y - lineStart.y) * dy
        cross == (point.x - lineStart.x) * dy - (point.y - lineStart.y) * dx
    IN IF lenSquared = 0 THEN Dist2(point, lineStart)
       ELSE IF along <= 0 THEN Dist2(point, lineStart) * lenSquared
       ELSE IF along >= lenSquared THEN Dist2(point, lineEnd) * lenSquared
       ELSE cross * cross

\* the squared length that perpendicularDistance multiplies by
LineScale(lineStart, lineEnd) ==
    IF Dist2(lineStart, lineEnd) = 0 THEN 1 ELSE Dist2(lineStart, lineEnd)

\* the loop of simplifyPolyline over the interior points (positions 2..end-1
\* of the sequence): the first point whose distance exceeds all before it and
\* 0; 0 when no distance is positive
FarthestPoint(pts) ==
    LET dist(i) == perpendicularDistance(pts[i], pts[1], pts[Len(pts)])
        best == {i \in 2..(Len(pts) - 1) :
                    /\ dist(i) > 0
                    /\ \A j \in 2..(Len(pts) - 1) : dist(j) <= dist(i)}
    IN IF best = {} THEN 0 ELSE MinOf(best)

\* simplifyPolyline(points, tolerance), for a tolerance that is a whole number
\* >= 0 (Douglas-Peucker)
RECURSIVE simplifyPolyline(_, _)
SimplifySplit(pts, tolerance, maxIndex) ==
    IF /\ maxIndex > 0
       /\ perpendicularDistance(pts[maxIndex], pts[1], pts[Len(pts)])
             > tolerance * tolerance * LineScale(pts[1], pts[Len(pts)])
    THEN LET left == simplifyPolyline(SubSeq(pts, 1, maxIndex), tolerance)
         IN SubSeq(left, 1, Len(left) - 1)
               \o simplifyPolyline(SubSeq(pts, maxIndex, Len(pts)), tolerance)
    ELSE <<pts[1], pts[Len(pts)]>>

simplifyPolyline(pts, tolerance) ==
    IF Len(pts) <= 2 THEN pts
    ELSE SimplifySplit(pts, tolerance, FarthestPoint(pts))

-----------------------------------------------------------------------------
(* K-means color quantizer *)

\* a color {r, g, b}
Rgb(r, g, b) == [r |-> r, g |-> g, b |-> b]

\* rgbDistance(color1, color2), squared
rgbDistance(color1, color2) ==
    (color1.r - color2.r) * (color1.r - color2.r)
       + (color1.g - color2.g) * (color1.g - color2.g)
       + (color1.b - color2.b) * (color1.b - color2.b)

\* clampRgb(color) for channels that are whole numbers
clampRgb(color) ==
    Rgb(Max(0, Min(255, color.r)), Max(0, Min(255, color.g)), Max(0, Min(255, color.b)))

\* _extractColorSamples(imageData, 1): the colors of the pixels whose alpha
\* is not 0, in order
extractColorSamples(data) ==
    LET kept == SelectSeq(data, LAMBDA px : px.a # 0)
    IN [i \in 1..Len(kept) |-> Rgb(kept[i].r, kept[i].g, kept[i].b)]

\* _kMeansPlusPlus: the samples that can become the next centroid; the first
\* sample whenever random <= distances[0] (it is for Math.random() = 0), a
\* later one only if its distance to the nearest centroid is positive
NextCentroids(samples, centroids) ==
    {samples[j] : j \in {j \in 1..Len(samples) :
        \/ j = 1
        \/ \A i \in 1..Len(centroids) : rgbDistance(samples[j], centroids[i]) > 0}}

\* _kMeansPlusPlus(samples, k): every list of k centroids the random choices
\* can give, continuing from the centroids chosen so far
RECURSIVE kMeansPlusPlus(_, _, _)
kMeansPlusPlus(samples, k, centroids) ==
    IF Len(centroids) = k THEN {centroids}
    ELSE IF centroids = <<>>
         THEN UNION {kMeansPlusPlus(samples, k, <<samples[j]>>) : j \in 1..Len(samples)}
         ELSE UNION {kMeansPlusPlus(samples, k, Append(centroids, c)) :
                        c \in NextCentroids(samples, centroids)}

\* _assignToClusters(samples, centroids): each sample goes to the first of its
\* nearest centroids
assignToClusters(samples, centroids) ==
    LET nearest(sample) ==
            MinOf({i \in 1..Len(centroids) :
                      \A j \in 1..Len(centroids) :
                          rgbDistance(sample, centroids[i]) <= rgbDistance(sample, centroids[j])})
    IN [i \in 1..Len(centroids) |-> SelectSeq(samples, LAMBDA sample : nearest(sample) = i)]

\* _calculateCentroids(clusters): the mean of each cluster (the inputs are
\* chosen so that the means are whole numbers); for an empty cluster
\* the color random[i]
calculateCentroids(clusters, random) ==
    [i \in 1..Len(clusters) |->
        IF Len(clusters[i]) = 0 THEN random[i]
        ELSE Rgb(SeqSum([j \in 1..Len(clusters[i]) |-> clusters[i][j].r]) \div Len(clusters[i]),
                 SeqSum([j \in 1..Len(clusters[i]) |-> clusters[i][j].g]) \div Len(clusters[i]),
                 SeqSum([j \in 1..Len(clusters[i]) |-> clusters[i][j].b]) \div Len(clusters[i]))]

\* _checkConvergence(oldCentroids, newCentroids, 1.0)
checkConvergence(oldCentroids, newCentroids) ==
    \A i \in 1..Len(oldCentroids) : rgbDistance(oldCentroids[i], newCentroids[i]) <= 1

-----------------------------------------------------------------------------
(* Edge detection: Sobel gradients, non-maximum suppression, hysteresis *)

\* the pixels the loops "for y = 1 .. height - 2, for x = 1 .. width - 2" visit
Interior(idx, width, height) ==
    /\ idx % width >= 1 /\ idx % width <= width - 2
    /\ idx \div width >= 1 /\ idx \div width <= height - 2

\* _sobelFilter(grayData, width, height): gx and gy of every pixel, and the
\* magnitude squared; the arrays stay 0 outside the loops
sobelFilter(grayData, width, height) ==
    [idx \in 0..(width * height - 1) |->
        IF ~Interior(idx, width, height) THEN [gx |-> 0, gy |-> 0, magnitude |-> 0]
        ELSE LET at(kx, ky) == grayData[idx + ky * width + kx]
                 gx == (at(1, -1) - at(-1, -1)) + 2 * (at(1, 0) - at(-1, 0))
                          + (at(1, 1) - at(-1, 1))
                 gy == (at(-1, 1) - at(-1, -1)) + 2 * (at(0, 1) - at(0, -1))
                          + (at(1, 1) - at(1, -1))
             IN [gx |-> gx, gy |-> gy, magnitude |-> gx * gx + gy * gy]]

\* _nonMaximumSuppression: the offset to the first of the two neighbors
\* compared, from the angle atan2(gy, gx) normalized to 0..180 degrees:
\* below 22.5 or from 157.5 the left and right neighbors, from 67.5 to 112.5
\* the upper and lower ones, otherwise a diagonal. tan 22.5 = sqrt(2) - 1 and
\* tan 67.5 = sqrt(2) + 1 are compared on squares.
NeighborOffset(gx, gy, width) ==
    IF (Abs(gy) + Abs(gx)) * (Abs(gy) + Abs(gx)) < 2 * gx * gx \/ (gx = 0 /\ gy = 0)
    THEN 0 - 1
    ELSE IF Abs(gy) >= Abs(gx) /\ (Abs(gy) - Abs(gx)) * (Abs(gy) - Abs(gx)) >= 2 * gx * gx
    THEN 0 - width
    ELSE IF (gx > 0 /\ gy > 0) \/ (gx < 0 /\ gy < 0)
    THEN 1 - width
    ELSE 0 - (width + 1)

\* _nonMaximumSuppression(magnitude, direction, width, height), magnitudes
\* squared
nonMaximumSuppression(gradient, width, height) ==
    [idx \in 0..(width * height - 1) |->
        IF ~Interior(idx, width, height) THEN 0
        ELSE LET off == NeighborOffset(gradient[idx].gx, gradient[idx].gy, width)
             IN IF /\ gradient[idx].magnitude >= gradient[idx + off].magnitude
                   /\ gradient[idx].magnitude >= gradient[idx - off].magnitude
                THEN gradient[idx].magnitude
                ELSE 0]

\* _hysteresis, the double threshold: 255 (STRONG), 128 (WEAK) or 0
DoubleThreshold(magnitude, lowThreshold, highThreshold) ==
    [idx \in DOMAIN magnitude |->
        IF magnitude[idx] >= highThreshold * highThreshold THEN 255
        ELSE IF magnitude[idx] >= lowThreshold * lowThreshold THEN 128
        ELSE 0]

\* _hysteresis, edge tracking: the interior pixels from idx on are visited in
\* row order, and a weak pixel becomes strong if one of its eight neighbors
\* is strong in the array as updated so far, 0 otherwise
RECURSIVE TrackEdges(_, _, _, _)
TrackEdges(edges, idx, width, height) ==
    IF idx >= width * height THEN edges
    ELSE IF Interior(idx, width, height) /\ edges[idx] = 128
    THEN LET hasStrongNeighbor ==
                 \E ky \in {-1, 0, 1}, kx \in {-1, 0, 1} :
                     (ky # 0 \/ kx # 0) /\ edges[idx + ky * width + kx] = 255
         IN TrackEdges([edges EXCEPT ![idx] = IF hasStrongNeighbor THEN 255 ELSE 0],
                       idx + 1, width, height)
    ELSE TrackEdges(edges, idx + 1, width, height)

\* _hysteresis(magnitude, width, height, lowThreshold, highThreshold): the
\* weak pixels left after the tracking become 0
hysteresis(magnitude, width, height, lowThreshold, highThreshold) ==
    LET tracked == TrackEdges(DoubleThreshold(magnitude, lowThreshold, highThreshold),
                              0, width, height)
    IN [idx \in DOMAIN tracked |-> IF tracked[idx] = 128 THEN 0 ELSE tracked[idx]]

-----------------------------------------------------------------------------
(* A run of generate that no other call interleaves with *)

\* the painting loop of generatePointillismGcode run to its end
RECURSIVE PaintQueue(_, _, _, _, _, _)
PaintQueue(st, queue, imageData, config, anchors, dotSize) ==
    IF queue = <<>> THEN st
    ELSE PaintQueue(paintSingleDot(st, Head(queue), imageData, config, anchors, dotSize),
                    Tail(queue), imageData, config, anchors, dotSize)

\* generateColorLayersGcode from layer i on, then the footer: the stream
\* returned, <<>> if the run throws
RECURSIVE LayersAlone(_, _, _, _, _)
LayerAlone(r, layers, i, config, dotSize) ==
    IF r.threw THEN <<>>
    ELSE IF i + 1 = Len(layers)
    THEN PaintQueue(r.st, r.queue, layers[i + 1].imageData, config,
                    createAnchorConfig(config.canvas), dotSize).lines
            \o <<Blank, Blank>> \o generateFooter
    ELSE LayersAlone([PaintQueue(r.st, r.queue, layers[i + 1].imageData, config,
                                 createAnchorConfig(config.canvas), dotSize)
                         EXCEPT !.lines = @ \o <<Blank>>],
                     layers, i + 1, config, dotSize)

LayersAlone(st, layers, i, config, dotSize) ==
    LayerAlone(StartLayer(st, layers[i + 1], i, config, createAnchorConfig(config.canvas),
                          dotSize),
               layers, i, config, dotSize)

\* generate(config, colorLayers, edgeMap) run from start to end on a generator
\* whose _currentPosition is position, every dot of diameter dotSize: the
\* stream returned, <<>> if the run throws
GenerateAlone(config, layers, edge, position, dotSize) ==
    IF reset(NewTracker, config.robot.paintCapacity).threw THEN <<>>
    ELSE IF Len(layers) > 0
    THEN LayersAlone([lines |-> generateHeader(config) \o <<Blank>>,
                      tracker |-> reset(NewTracker, config.robot.paintCapacity).tracker,
                      currentPosition |-> position, signals |-> 0, planned |-> 0],
                     layers, 0, config, dotSize)
    ELSE IF edge.present
    THEN generateEdgeMapGcode([lines |-> generateHeader(config) \o <<Blank>>,
                               tracker |-> reset(NewTracker, config.robot.paintCapacity).tracker,
                               currentPosition |-> position, signals |-> 0, planned |-> 0],
                              edge, config, createAnchorConfig(config.canvas)).lines
            \o <<Blank>> \o generateFooter
    ELSE <<>>

-----------------------------------------------------------------------------
(* Color separator: processing/colorSeparator.js, and the quantization of  *)
(* algorithms/kMeans.js.  An image is its data, a sequence of pixels       *)
(* [r, g, b, a]; the colors of a palette have whole channels.              *)

\* _findNearestColor(pixel, palette): the first of the nearest colors
findNearestColor(pixel, palette) ==
    palette[MinOf({i \in 1..Len(palette) :
                      \A j \in 1..Len(palette) :
                          rgbDistance(pixel, palette[i]) <= rgbDistance(pixel, palette[j])})]

\* quantizeImage(imageData, palette): every pixel takes the nearest color of
\* the palette and keeps its alpha
quantizeImage(data, palette) ==
    [i \in 1..Len(data) |->
        LET nearestColor == findNearestColor(data[i], palette)
        IN [r |-> nearestColor.r, g |-> nearestColor.g, b |-> nearestColor.b, a |-> data[i].a]]

\* createColorMask(imageData, targetColor, tolerance): isMatch is
\* distance <= tolerance && alpha > 0
createColorMask(data, targetColor, tolerance) ==
    [i \in 1..Len(data) |->
        IF rgbDistance(data[i], targetColor) <= tolerance * tolerance /\ data[i].a > 0
        THEN [r |-> targetColor.r, g |-> targetColor.g, b |-> targetColor.b, a |-> 255]
        ELSE [r |-> 0, g |-> 0, b |-> 0, a |-> 0]]

\* _countOpaquePixels(imageData)
countOpaquePixels(data) == Cardinality({i \in 1..Len(data) : data[i].a > 0})

\* separateColors(imageData, palette, tolerance): a layer for each color of
\* the palette, sorted by pixel count, the larger first (the sort is stable)
separateColors(data, palette, tolerance) ==
    LET layer(i) == LET layerData == createColorMask(data, palette[i], tolerance)
                    IN [color |-> palette[i], imageData |-> layerData,
                        pixelCount |-> countOpaquePixels(layerData), index |-> i - 1]
        n == Len(palette)
    IN IF n = 0 THEN <<>>
       ELSE LET sorted == SortedSeq(1..n, [i \in 1..n |-> i - (n + 1) * layer(i).pixelCount])
            IN [k \in 1..n |-> layer(sorted[k])]

-----------------------------------------------------------------------------
(* Edge tracer: the contours of an edge map.  data gives the first channel *)
(* of every pixel, indexed by y * width + x.                               *)

\* isEdgePixel(edgeMap, x, y, width, threshold)
isEdgePixel(data, x, y, width, threshold) == data[y * width + x] >= threshold

\* getNeighbors(x, y, width, height): the neighbors inside the image, row by
\* row from the upper left one
getNeighbors(x, y, width, height) ==
    LET offsets == <<<<-1, -1>>, <<0, -1>>, <<1, -1>>, <<-1, 0>>, <<1, 0>>,
                     <<-1, 1>>, <<0, 1>>, <<1, 1>>>>
        inside == SelectSeq(offsets, LAMBDA o : /\ x + o[1] >= 0 /\ x + o[1] < width
                                                /\ y + o[2] >= 0 /\ y + o[2] < height)
    IN [k \in 1..Len(inside) |-> [x |-> x + inside[k][1], y |-> y + inside[k][2]]]

RECURSIVE VisitNeighbors(_, _, _, _, _, _)
\* the for loop of traceContour over the neighbors from the k-th on: an edge
\* pixel not yet visited is marked, appended to the polyline and queued
VisitNeighbors(data, width, threshold, neighbors, k, t) ==
    IF k > Len(neighbors) THEN t
    ELSE LET neighbor == neighbors[k]
         IN IF /\ neighbor \notin t.visited
               /\ isEdgePixel(data, neighbor.x, neighbor.y, width, threshold)
            THEN VisitNeighbors(data, width, threshold, neighbors, k + 1,
                                [visited |-> t.visited \cup {neighbor},
                                 polyline |-> Append(t.polyline, neighbor),
                                 queue |-> Append(t.queue, neighbor)])
            ELSE VisitNeighbors(data, width, threshold, neighbors, k + 1, t)

RECURSIVE TraceLoop(_, _, _, _, _)
\* the while loop of traceContour: the head of the queue is taken off and its
\* neighbors are visited
TraceLoop(data, width, height, threshold, t) ==
    IF t.queue = <<>> THEN t
    ELSE LET current == Head(t.queue)
         IN TraceLoop(data, width, height, threshold,
                      VisitNeighbors(data, width, threshold,
                                     getNeighbors(current.x, current.y, width, height), 1,
                                     [t EXCEPT !.queue = Tail(t.queue)]))

\* traceContour(edgeMap, startX, startY, width, height, visited, threshold);
\* [visited, polyline, queue]
traceContour(data, startX, startY, width, height, visited, threshold) ==
    TraceLoop(data, width, height, threshold,
              [visited |-> visited \cup {[x |-> startX, y |-> startY]},
               polyline |-> <<[x |-> startX, y |-> startY]>>,
               queue |-> <<[x |-> startX, y |-> startY]>>])

RECURSIVE ScanContours(_, _, _, _, _, _)
\* the scan of findEdgeContours from pixel idx on, row by row
ScanContours(data, width, height, threshold, idx, s) ==
    IF idx >= width * height THEN s.contours
    ELSE LET x == idx % width
             y == idx \div width
         IN IF [x |-> x, y |-> y] \notin s.visited /\ isEdgePixel(data, x, y, width, threshold)
            THEN LET t == traceContour(data, x, y, width, height, s.visited, threshold)
                 IN ScanContours(data, width, height, threshold, idx + 1,
                                 [visited |-> t.visited,
                                  contours |-> IF Len(t.polyline) > 1
                                               THEN Append(s.contours, t.polyline)
                                               ELSE s.contours])
            ELSE ScanContours(data, width, height, threshold, idx + 1, s)

\* findEdgeContours(edgeMap, threshold)
findEdgeContours(edgeMap, threshold) ==
    ScanContours(edgeMap.data, edgeMap.width, edgeMap.height, threshold, 0,
                 [visited |-> {}, contours |-> <<>>])

-----------------------------------------------------------------------------
(* Spatial index: findNearest with the default maxDistance, Infinity.      *)
(* Distances are kept squared, and Infinity is NoDistance.                 *)

NoDistance == -1

\* the indices of the points in the cells of the ring at the given radius
\* around the cell of the query point
RingPoints(pts, gs2, point, radius) ==
    LET cell == getGridCell(point, gs2)
    IN {i \in Indices(pts) :
          Max(Abs(getGridCell(Pt(pts, i), gs2).x - cell.x),
              Abs(getGridCell(Pt(pts, i), gs2).y - cell.y)) = radius}

\* distance < nearestDistance
Nearer(d, nearestDistance) == nearestDistance = NoDistance \/ d < nearestDistance

\* one pass of the for loop over the radius in findNearest: the cells of the
\* ring are searched (dx, then dy ascending, a cell in index order) for a
\* point nearer than the nearest so far; [found, nearestIndex,
\* nearestDistance]
SearchRing(pts, gs2, point, radius, nearestIndex, nearestDistance) ==
    LET nearer == {i \in RingPoints(pts, gs2, point, radius) :
                      Nearer(Dist2(point, Pt(pts, i)), nearestDistance)}
    IN IF nearer = {}
       THEN [found |-> FALSE, nearestIndex |-> nearestIndex, nearestDistance |-> nearestDistance]
       ELSE LET best == CHOOSE i \in nearer :
                           \A j \in nearer :
                               \/ Dist2(point, Pt(pts, i)) < Dist2(point, Pt(pts, j))
                               \/ /\ Dist2(point, Pt(pts, i)) = Dist2(point, Pt(pts, j))
                                  /\ ListedBefore(pts, gs2, i, j)
            IN [found |-> TRUE, nearestIndex |-> best,
                nearestDistance |-> Dist2(point, Pt(pts, best))]

\* the test that ends the loop: found && (radius + 1) * gridSize >
\* nearestDistance
RingBreaks(s, gs2, radius) ==
    s.found /\ (radius + 1) * (radius + 1) * gs2[1] > s.nearestDistance * gs2[2]

-----------------------------------------------------------------------------
(* The tour planner called on every point array of the grid *)

GridPoints == {[x |-> i * GridStep, y |-> j * GridStep] : i \in 0..MaxGridX, j \in 0..MaxGridY}

\* scan order of pixels: row by row, left to right
ScanBefore(p, q) == p.y < q.y \/ (p.y = q.y /\ p.x < q.x)

InitTour ==
    /\ points = <<>>
    /\ tspStart = 0
    /\ tspOptimize = FALSE
    /\ nnTour = <<>>
    /\ tour = <<>>
    /\ tspPhase = "input"

\* the paint tracker before any call
\* capacities offered to reset, in volume units: 0.002 ml, 0.005 ml, zero, a
\* negative number, a string and undefined
TrackerCapacities ==
    {Num(20 * DistScale), Num(50 * DistScale), Num(0), Num(-1 * DistScale),
     NotNum("string"), NotNum("undefined")}

\* areas offered to addUsage, in 1/DistScale mm2
UsageAreas ==
    {Num(0), Num(5 * DistScale), Num(18 * DistScale), Num(-1 * DistScale), NotNum("string")}

InitTracker ==
    /\ tracker = NewTracker
    /\ trackerCall = "constructor"
    /\ trackerReturn = FALSE
    /\ trackerThrew = FALSE
    /\ sinceRefill = 0
    /\ usageEvents = 0

\* the inputs of generate

\* paint capacities of the config, in volume units: 0.001 ml, 0.1 ml, zero, a
\* negative number and a string
GenCapacities ==
    {Num(10 * DistScale), Num(1000 * DistScale), Num(0), Num(-5 * DistScale), NotNum("string")}

\* a canvas of 20 cm x 10 cm with the given anchors (cm)
Canvas(topLeft, topRight, bottomLeft, bottomRight) ==
    [width |-> 20, height |-> 10,
     anchorTopLeft |-> topLeft, anchorTopRight |-> topRight,
     anchorBottomLeft |-> bottomLeft, anchorBottomRight |-> bottomRight]

Cm(x, y) == [x |-> x, y |-> y]

\* anchors at the corners of the canvas
CornerCanvas == Canvas(Cm(0, 0), Cm(20, 0), Cm(0, 10), Cm(20, 10))
\* both top anchors at the same place
CoincidentTopCanvas == Canvas(Cm(5, 0), Cm(5, 0), Cm(0, 10), Cm(20, 10))
\* the three anchors on the line y = 5
CollinearCanvas == Canvas(Cm(0, 5), Cm(20, 5), Cm(0, 5), Cm(20, 5))

Canvases == {CornerCanvas, CoincidentTopCanvas, CollinearCanvas}

\* the config of a run; the speeds, dot sizes and stroke width are those of
\* DEFAULT_CONFIG
ConfigOf(canvas, paintCapacity, paintingMode) ==
    [canvas |-> canvas,
     robot |-> [paintCapacity |-> paintCapacity,
                refillPosition |-> Cm(-1, 5),
                moveSpeed |-> 3000,
                paintSpeed |-> 1500],
     paint |-> [paintingMode |-> paintingMode,
                pointillism |-> [minDotSize |-> 1, maxDotSize |-> 5, dotDensity |-> 100],
                strokes |-> [strokeWidth |-> 2]]]

\* the diameters Math.random() can give a dot: the least, and one in between
DotSizes(cfg) ==
    {cfg.paint.pointillism.minDotSize,
     (cfg.paint.pointillism.minDotSize + cfg.paint.pointillism.maxDotSize) \div 2}

\* a layer whose ImageData, 40 x 20 pixels, has the given opaque pixels
LayerOf(opaque) == [imageData |-> [width |-> 40, height |-> 20, opaque |-> opaque]]

\* ten pixels in a row: one cell of the sampling grid, one stroke
RunMask == {[x |-> i, y |-> 0] : i \in 0..9}
\* six pixels in four cells, two of them at the start of an odd row
ClusterMask == {Cm(0, 0), Cm(1, 0), Cm(10, 0), Cm(20, 0), Cm(0, 11), Cm(1, 11)}
\* five pixels in five cells
SpreadMask == {Cm(10, 0), Cm(20, 0), Cm(30, 0), Cm(0, 10), Cm(20, 10)}
\* six pixels in six cells
SixMask == {Cm(0, 0), Cm(10, 0), Cm(20, 0), Cm(30, 0), Cm(0, 10), Cm(10, 10)}

\* the masks of the layers; the empty one is a layer without an opaque pixel
Masks == {RunMask, ClusterMask, SpreadMask, SixMask, {}}

LayerChoices == UNION {[1..n -> {LayerOf(m) : m \in Masks}] : n \in 1..MaxLayers}

NoEdgeMap == [present |-> FALSE, width |-> 0, height |-> 0, traced |-> <<>>]

\* an edge map of 40 x 20 pixels in which traceEdges finds the given polylines
EdgeMapOf(traced) == [present |-> TRUE, width |-> 40, height |-> 20, traced |-> traced]

\* a straight run of edge pixels, and a run with a corner
StraightContour == <<Cm(0, 0), Cm(7, 0)>>
CornerContour == <<Cm(30, 5), Cm(30, 12), Cm(35, 12)>>

EdgeMaps == {EdgeMapOf(<<>>), EdgeMapOf(<<StraightContour>>),
             EdgeMapOf(<<StraightContour, CornerContour>>)}

\* what the application hands to generate: color layers in the pointillism
\* and strokes modes, an edge map in the spray mode, or no image at all
Jobs ==
    {[mode |-> m, layers |-> l, edge |-> NoEdgeMap] :
        m \in {"pointillism", "strokes"}, l \in LayerChoices}
    \cup {[mode |-> "spray", layers |-> <<>>, edge |-> e] : e \in EdgeMaps \cup {NoEdgeMap}}

\* the generator after its constructor, before any run
InitGen ==
    /\ genConfig = ConfigOf(CornerCanvas, Num(0), "pointillism")
    /\ colorLayers = <<>>
    /\ genEdgeMap = NoEdgeMap
    /\ lines = <<>>
    /\ genPosition = NoPosition
    /\ genPhase = "idle"
    /\ genLayer = 0
    /\ dotQueue = <<>>
    /\ result = <<>>
    /\ error = ""
    /\ signals = 0
    /\ genPlanned = 0
    /\ genRuns = 0

\* the inputs of the transformer

\* columns and rows of the points given to the round trip
XfCols == 40
XfRows == 27

\* the points of the round trip, in 1/100 mm: 0.1 mm apart in x, 0.11 mm in y
XfPoints == {[x |-> 10 * i, y |-> 11 * j] : i \in 0..XfCols, j \in 0..XfRows}

\* anchors in mm: top anchors level and 4 mm apart; top anchors on a slope,
\* 5 mm apart; top anchors at one place
XfAnchorSets ==
    {[topLeft |-> Cm(0, 0), topRight |-> Cm(4, 0), bottomCenter |-> Cm(2, 3)],
     [topLeft |-> Cm(0, 0), topRight |-> Cm(4, 3), bottomCenter |-> Cm(2, 5)],
     [topLeft |-> Cm(2, 0), topRight |-> Cm(2, 0), bottomCenter |-> Cm(2, 3)]}

\* the anchors of the example of cartesianToTrilateration, in mm
ExampleAnchors ==
    [topLeft |-> Cm(0, 0), topRight |-> Cm(2000, 0), bottomCenter |-> Cm(1000, 1500)]

\* no transform called yet
InitTransform ==
    /\ xfAnchors = ExampleAnchors
    /\ xfPoint = Cm(0, 0)
    /\ xfCables = [X |-> 0, Y |-> 0, Z |-> 0]
    /\ xfBack = NoPoint
    /\ xfCall = "none"

\* the target color and the tolerance of the calls: white, and the default
\* tolerance of the planners
TargetColor == [r |-> 255, g |-> 255, b |-> 255]
Tolerance == 30

\* width and height of the images given to the planners
MaxImageWidth == 3
MaxImageHeight == 2

\* what a pixel of these images can be: opaque white, opaque black, or white
\* with alpha 100
PixelKinds ==
    {[r |-> 255, g |-> 255, b |-> 255, a |-> 255],
     [r |-> 0, g |-> 0, b |-> 0, a |-> 255],
     [r |-> 255, g |-> 255, b |-> 255, a |-> 100]}

\* the images of a given width: data[y * width + x] is the pixel (x, y)
Images(width) ==
    {[width |-> width, height |-> MaxImageHeight, data |-> d] :
        d \in [0..(width * MaxImageHeight - 1) -> PixelKinds]}

\* no planner called yet
InitScanline ==
    /\ spImage = [width |-> 0, height |-> 0, data |-> <<>>]
    /\ spHorizontal = <<>>
    /\ spBidirectional = <<>>
    /\ spCall = "none"

\* the polylines given to simplifyPolyline: up to MaxPolyline points with
\* x in 0..MaxPolyX and y in 0..MaxPolyY
MaxPolyline == 4
MaxPolyX == 2
MaxPolyY == 1

Polylines ==
    UNION {[1..n -> [x : 0..MaxPolyX, y : 0..MaxPolyY]] : n \in 0..MaxPolyline}

\* simplifyPolyline not called yet
InitSimplify ==
    /\ plPoints = <<>>
    /\ plTolerance = 0
    /\ plResult = <<>>
    /\ plCall = "none"

\* the images given to findDominantColors: up to MaxPixels pixels, each red,
\* blue or fully transparent; numColors in 1..MaxColors; maxIterations in
\* 1..MaxIterationsGiven
MaxPixels == 3
MaxColors == 3
MaxIterationsGiven == 2

KmPixels ==
    {[r |-> 252, g |-> 0, b |-> 0, a |-> 255],
     [r |-> 0, g |-> 0, b |-> 252, a |-> 255],
     [r |-> 0, g |-> 0, b |-> 0, a |-> 0]}

\* the colors Math.floor(Math.random() * 256) is taken to produce, per channel
\* 0 or 252 of the 256 values
RandomColors == {Rgb(r, g, b) : r \in {0, 252}, g \in {0, 252}, b \in {0, 252}}

\* findDominantColors not called yet
InitKMeans ==
    /\ kmCall = [data |-> <<>>, numColors |-> 0, maxIterations |-> 0]
    /\ kmLoop = [centroids |-> <<>>, iteration |-> 0, hasConverged |-> FALSE]
    /\ kmPhase = "none"
    /\ kmResult = <<>>

\* the images given to detectEdges: gray pixels of value 0 or 60, width
\* 2..MaxEdgeWidth, height MaxEdgeHeight; kernelSize is 1, for which the blur
\* returns the gray values
MaxEdgeWidth == 4
MaxEdgeHeight == 3

GrayImages ==
    UNION {[width : {w}, height : {MaxEdgeHeight},
            data : [0..(w * MaxEdgeHeight - 1) -> {0, 60}]] : w \in 2..MaxEdgeWidth}

\* the thresholds given to detectEdges
Thresholds == {0, 128, 255}

\* detectEdges not called yet
InitEdges ==
    /\ edCall = [image |-> [width |-> 0, height |-> 0, data |-> <<>>],
                 lowThreshold |-> 0, highThreshold |-> 0]
    /\ edEdges = <<>>
    /\ edPhase = "none"

\* no second call of generate
InitParked ==
    genParked = [phase |-> "none", config |-> ConfigOf(CornerCanvas, Num(0), "pointillism"),
                 layers |-> <<>>, edge |-> NoEdgeMap, lines |-> <<>>, tracker |-> NewTracker,
                 layer |-> 0, queue |-> <<>>, result |-> <<>>, error |-> "",
                 signals |-> 0, planned |-> 0]

\* no function called yet
InitPure ==
    /\ pureCall = [fn |-> "none"]
    /\ pureReturn = <<>>

InitOther ==
    /\ InitTransform /\ InitScanline /\ InitSimplify /\ InitKMeans /\ InitEdges /\ InitParked
    /\ InitPure

Init == InitTour /\ InitTracker /\ InitGen /\ InitOther

-----------------------------------------------------------------------------
(* The tour planner called on every point array of the grid: actions *)

\* the caller appends a point; the arrays of the pipeline hold distinct pixels
\* in scan order
AddPoint(p) ==
    /\ tspPhase = "input"
    /\ Len(points) < MaxPoints
    /\ Len(points) > 0 => ScanBefore(points[Len(points)], p)
    /\ points' = Append(points, p)
    /\ UNCHANGED <<tspStart, tspOptimize, nnTour, tour, tspPhase>>
    /\ UNCHANGED <<trackerVars, genVars, otherVars>>

\* solveTSP(points, {startIndex, optimize}) with a start index of the array
CallSolveTSP(startIndex, optimize) ==
    /\ tspPhase = "input"
    /\ startIndex \in Indices(points) \cup {0}
    /\ LET r == solveTSP(points, startIndex, optimize)
       IN /\ nnTour' = r.initial
          /\ tour' = r.tour
          /\ tspPhase' = IF r.threw THEN "threw" ELSE "solved"
    /\ tspStart' = startIndex
    /\ tspOptimize' = optimize
    /\ UNCHANGED points
    /\ UNCHANGED <<trackerVars, genVars, otherVars>>

NextTour ==
    \/ \E p \in GridPoints : AddPoint(p)
    \/ \E s \in 0..(MaxPoints - 1), o \in BOOLEAN : CallSolveTSP(s, o)

SpecTour == Init /\ [][NextTour]_vars

-----------------------------------------------------------------------------
(* The paint tracker under every sequence of calls *)

TrackerReset(paintCapacity) ==
    /\ LET r == reset(tracker, paintCapacity)
       IN /\ tracker' = r.tracker
          /\ trackerThrew' = r.threw
          /\ sinceRefill' = IF r.threw THEN sinceRefill ELSE 0
          /\ usageEvents' = IF r.threw THEN usageEvents ELSE 0
    /\ trackerCall' = "reset"
    /\ trackerReturn' = FALSE
    /\ UNCHANGED <<tspVars, genVars, otherVars>>

\* what a usage call leaves behind; volume is the paint it was asked to deduct
TrackerUsed(call, r, volume) ==
    /\ usageEvents < MaxUsages
    /\ tracker' = r.tracker
    /\ trackerThrew' = r.threw
    /\ trackerReturn' = r.needsRefill
    /\ trackerCall' = call
    /\ sinceRefill' = IF r.threw THEN sinceRefill ELSE sinceRefill + volume
    /\ usageEvents' = IF r.threw THEN usageEvents ELSE usageEvents + 1
    /\ UNCHANGED <<tspVars, genVars, otherVars>>

TrackerAddUsage(area, thickness) ==
    TrackerUsed("addUsage", addUsage(tracker, area, thickness), area.value * thickness)

TrackerAddLineUsage(length, width) ==
    TrackerUsed("addLineUsage", addLineUsage(tracker, length, width, 1), length * width)

TrackerAddDotUsage(diameter) ==
    TrackerUsed("addDotUsage", addDotUsage(tracker, diameter, 1), DotArea(diameter))

TrackerRefill ==
    /\ tracker.refillCount < MaxRefills
    /\ tracker' = refill(tracker)
    /\ trackerCall' = "refill"
    /\ trackerReturn' = FALSE
    /\ trackerThrew' = FALSE
    /\ sinceRefill' = 0
    /\ UNCHANGED <<usageEvents, tspVars, genVars, otherVars>>

NextTracker ==
    \/ \E c \in TrackerCapacities : TrackerReset(c)
    \/ \E a \in UsageAreas, th \in 1..2 : TrackerAddUsage(a, th)
    \/ \E len \in {2 * DistScale, 10 * DistScale}, w \in {1, 5} : TrackerAddLineUsage(len, w)
    \/ \E d \in {2, 4} : TrackerAddDotUsage(d)
    \/ TrackerRefill

SpecTracker == Init /\ [][NextTracker]_vars

-----------------------------------------------------------------------------
(* The generator: one action for each stretch of generate that runs        *)
(* between two suspensions of the async call                               *)

RunState ==
    [lines |-> lines, tracker |-> tracker, currentPosition |-> genPosition,
     signals |-> signals, planned |-> genPlanned]

SetRun(st) ==
    /\ lines' = st.lines
    /\ tracker' = st.tracker
    /\ genPosition' = st.currentPosition
    /\ signals' = st.signals
    /\ genPlanned' = st.planned

\* generate throws: the catch block rethrows and no stream is returned
Throw(st, message) ==
    /\ SetRun(st)
    /\ genPhase' = "failed"
    /\ error' = message
    /\ result' = <<>>
    /\ dotQueue' = <<>>

\* the run goes on with the outcome r of StartLayer for layer i
EnterLayer(r, i) ==
    /\ genLayer' = i
    /\ IF r.threw
       THEN Throw(r.st, "Cannot read properties of undefined (reading 'x')")
       ELSE /\ SetRun(r.st)
            /\ dotQueue' = r.queue
            /\ genPhase' = IF r.queue = <<>> THEN "layerDone" ELSE "dots"
            /\ error' = ""
            /\ result' = <<>>

\* layer i of the run st is started under the config cfg
BeginLayer(st, cfg, layers, i, dotSize) ==
    EnterLayer(StartLayer(st, layers[i + 1], i, cfg, createAnchorConfig(cfg.canvas), dotSize), i)

\* generate after its header: the tracker is reset to the configured
\* capacity, then the color layers are painted if there are any, the edge
\* map if there is one, and without either the run throws
Dispatch(st, r, cfg, job, dotSize) ==
    IF r.threw
    THEN Throw(st, r.error) /\ genLayer' = 0
    ELSE IF Len(job.layers) > 0
    THEN BeginLayer([st EXCEPT !.tracker = r.tracker], cfg, job.layers, 0, dotSize)
    ELSE IF job.edge.present
    THEN /\ SetRun(generateEdgeMapGcode([st EXCEPT !.tracker = r.tracker], job.edge, cfg,
                                        createAnchorConfig(cfg.canvas)))
         /\ genPhase' = "edgeDone"
         /\ error' = ""
         /\ result' = <<>>
         /\ dotQueue' = <<>>
         /\ genLayer' = 0
    ELSE Throw([st EXCEPT !.tracker = r.tracker],
               "No image data provided for G-code generation") /\ genLayer' = 0

\* generate(config, colorLayers, edgeMap) up to its first suspension
Generate(cfg, job, dotSize) ==
    /\ genPhase \in {"idle", "done", "failed"}
    /\ genRuns < MaxRuns
    /\ genRuns' = genRuns + 1
    /\ genConfig' = cfg
    /\ colorLayers' = job.layers
    /\ genEdgeMap' = job.edge
    /\ Dispatch([lines |-> generateHeader(cfg) \o <<Blank>>,
                 tracker |-> NewTracker,
                 currentPosition |-> genPosition,
                 signals |-> 0,
                 planned |-> 0],
                reset(NewTracker, cfg.robot.paintCapacity), cfg, job, dotSize)
    /\ UNCHANGED <<tspVars, trackerCall, trackerReturn, trackerThrew, sinceRefill, usageEvents,
                   otherVars>>

\* the painting loop of generatePointillismGcode resumes: one more dot
PaintDot(dotSize) ==
    /\ genPhase = "dots"
    /\ SetRun(paintSingleDot(RunState, Head(dotQueue), colorLayers[genLayer + 1].imageData,
                             genConfig, createAnchorConfig(genConfig.canvas), dotSize))
    /\ dotQueue' = Tail(dotQueue)
    /\ genPhase' = IF Tail(dotQueue) = <<>> THEN "layerDone" ELSE "dots"
    /\ UNCHANGED <<genConfig, colorLayers, genEdgeMap, genLayer, result, error, genRuns>>
    /\ UNCHANGED <<tspVars, trackerCall, trackerReturn, trackerThrew, sinceRefill, usageEvents,
                   otherVars>>

\* generateColorLayersGcode resumes after a layer: the blank line that ends
\* it, and the next layer
NextLayer(dotSize) ==
    /\ genPhase = "layerDone"
    /\ genLayer + 1 < Len(colorLayers)
    /\ BeginLayer([RunState EXCEPT !.lines = @ \o <<Blank>>], genConfig, colorLayers,
                  genLayer + 1, dotSize)
    /\ UNCHANGED <<genConfig, colorLayers, genEdgeMap, genRuns>>
    /\ UNCHANGED <<tspVars, trackerCall, trackerReturn, trackerThrew, sinceRefill, usageEvents,
                   otherVars>>

\* generate resumes after the last layer, or after the edge map: the footer
\* is appended and the joined stream returned
Finish ==
    /\ \/ genPhase = "layerDone" /\ genLayer + 1 = Len(colorLayers)
       \/ genPhase = "edgeDone"
    /\ lines' = lines \o (IF genPhase = "layerDone" THEN <<Blank>> ELSE <<>>)
                      \o <<Blank>> \o generateFooter
    /\ result' = lines'
    /\ genPhase' = "done"
    /\ UNCHANGED <<genConfig, colorLayers, genEdgeMap, genPosition, genLayer, dotQueue,
                   error, signals, genPlanned, genRuns, tracker>>
    /\ UNCHANGED <<tspVars, trackerCall, trackerReturn, trackerThrew, sinceRefill, usageEvents,
                   otherVars>>

Next ==
    \/ \E cv \in Canvases, cap \in GenCapacities, job \in Jobs :
          \E dotSize \in DotSizes(ConfigOf(cv, cap, job.mode)) :
             Generate(ConfigOf(cv, cap, job.mode), job, dotSize)
    \/ \E dotSize \in DotSizes(genConfig) : PaintDot(dotSize)
    \/ \E dotSize \in DotSizes(genConfig) : NextLayer(dotSize)
    \/ Finish

Spec == Init /\ [][Next]_vars

-----------------------------------------------------------------------------
(* The generator used for one run after another *)

\* the runs of a generator that is used again
MaxReuse == 2

\* every dot of these runs draws the least diameter
ReuseDotSize == 1

\* the jobs of these runs: one layer of every mask in both modes, two layers
\* in the pointillism mode, and the edge maps
ReuseJobs ==
    {[mode |-> m, layers |-> <<LayerOf(mask)>>, edge |-> NoEdgeMap] :
        m \in {"pointillism", "strokes"}, mask \in Masks}
    \cup {[mode |-> "pointillism", layers |-> <<LayerOf(SpreadMask), LayerOf(ClusterMask)>>,
           edge |-> NoEdgeMap]}
    \cup {[mode |-> "spray", layers |-> <<>>, edge |-> e] : e \in EdgeMaps}

ReuseConfig(job) == ConfigOf(CornerCanvas, Num(1000 * DistScale), job.mode)

\* generate called on the generator after an earlier run has returned
GenerateAgain(cfg, job, dotSize) ==
    /\ genPhase \in {"done", "failed"}
    /\ genRuns >= 1 /\ genRuns < MaxReuse
    /\ genRuns' = genRuns + 1
    /\ genConfig' = cfg
    /\ colorLayers' = job.layers
    /\ genEdgeMap' = job.edge
    /\ Dispatch([lines |-> generateHeader(cfg) \o <<Blank>>,
                 tracker |-> NewTracker,
                 currentPosition |-> genPosition,
                 signals |-> 0,
                 planned |-> 0],
                reset(NewTracker, cfg.robot.paintCapacity), cfg, job, dotSize)
    /\ UNCHANGED <<tspVars, trackerCall, trackerReturn, trackerThrew, sinceRefill, usageEvents,
                   otherVars>>

NextReuse ==
    \/ \E job \in ReuseJobs : Generate(ReuseConfig(job), job, ReuseDotSize)
    \/ \E job \in ReuseJobs : GenerateAgain(ReuseConfig(job), job, ReuseDotSize)
    \/ PaintDot(ReuseDotSize)
    \/ NextLayer(ReuseDotSize)
    \/ Finish

SpecReuse == Init /\ [][NextReuse]_vars

-----------------------------------------------------------------------------
(* Two calls of generate on one generator, interleaved at their awaits *)

\* the locals of the call that is running, as they are kept while it is
\* suspended
Locals ==
    [phase |-> genPhase, config |-> genConfig, layers |-> colorLayers, edge |-> genEdgeMap,
     lines |-> lines, tracker |-> tracker, layer |-> genLayer, queue |-> dotQueue,
     result |-> result, error |-> error, signals |-> signals, planned |-> genPlanned]

\* generate is called a second time while the first call is suspended at an
\* await: the second call has its own lines and its own RefillTracker, and
\* reads this._currentPosition as the first call left it
GenerateConcurrently(cfg, job, dotSize) ==
    /\ genPhase \in {"dots", "layerDone", "edgeDone"}
    /\ genParked.phase = "none"
    /\ genParked' = Locals
    /\ genRuns' = genRuns + 1
    /\ genConfig' = cfg
    /\ colorLayers' = job.layers
    /\ genEdgeMap' = job.edge
    /\ Dispatch([lines |-> generateHeader(cfg) \o <<Blank>>,
                 tracker |-> NewTracker,
                 currentPosition |-> genPosition,
                 signals |-> 0,
                 planned |-> 0],
                reset(NewTracker, cfg.robot.paintCapacity), cfg, job, dotSize)
    /\ UNCHANGED <<tspVars, trackerCall, trackerReturn, trackerThrew, sinceRefill, usageEvents,
                   xfVars, spVars, plVars, kmVars, edVars, pureVars>>

\* the running call is suspended at an await, or has returned, and the other
\* call is the one that continues; this._currentPosition is the generator's
Resume ==
    /\ genPhase \in {"dots", "layerDone", "edgeDone", "done", "failed"}
    /\ genParked.phase \in {"dots", "layerDone", "edgeDone"}
    /\ genParked' = Locals
    /\ genPhase' = genParked.phase
    /\ genConfig' = genParked.config
    /\ colorLayers' = genParked.layers
    /\ genEdgeMap' = genParked.edge
    /\ lines' = genParked.lines
    /\ tracker' = genParked.tracker
    /\ genLayer' = genParked.layer
    /\ dotQueue' = genParked.queue
    /\ result' = genParked.result
    /\ error' = genParked.error
    /\ signals' = genParked.signals
    /\ genPlanned' = genParked.planned
    /\ UNCHANGED <<genPosition, genRuns>>
    /\ UNCHANGED <<tspVars, trackerCall, trackerReturn, trackerThrew, sinceRefill, usageEvents,
                   xfVars, spVars, plVars, kmVars, edVars, pureVars>>

NextInterleave ==
    \/ \E job \in ReuseJobs : Generate(ReuseConfig(job), job, ReuseDotSize)
    \/ \E job \in ReuseJobs : GenerateConcurrently(ReuseConfig(job), job, ReuseDotSize)
    \/ Resume
    \/ PaintDot(ReuseDotSize)
    \/ NextLayer(ReuseDotSize)
    \/ Finish

SpecInterleave == Init /\ [][NextInterleave]_vars

-----------------------------------------------------------------------------
(* The coordinate transformer called on points of the plane *)

\* trilaterationToCartesian(cartesianToTrilateration(p)), p in 1/100 mm
RoundTrip(anchors, p) ==
    /\ xfCall = "none"
    /\ xfCall' = "roundTrip"
    /\ xfAnchors' = anchors
    /\ xfPoint' = p
    /\ xfCables' = cartesianToTrilateration(p.x, p.y, anchors)
    /\ xfBack' = trilaterationToCartesian(xfCables'.X, xfCables'.Y, xfCables'.Z, anchors)
    /\ UNCHANGED <<tspVars, trackerVars, genVars, spVars, plVars, kmVars, edVars, genParked, pureVars>>

\* cartesianToTrilateration(p) for a point in whole mm
Forward(anchors, p) ==
    /\ xfCall = "none"
    /\ xfCall' = "forward"
    /\ xfAnchors' = anchors
    /\ xfPoint' = p
    /\ xfCables' = cartesianToTrilaterationMm(p.x, p.y, anchors)
    /\ xfBack' = NoPoint
    /\ UNCHANGED <<tspVars, trackerVars, genVars, spVars, plVars, kmVars, edVars, genParked, pureVars>>

NextTransform ==
    \/ \E anchors \in XfAnchorSets, p \in XfPoints : RoundTrip(anchors, p)
    \/ \E i \in 0..4, j \in 0..5 : Forward(ExampleAnchors, [x |-> 500 * i, y |-> 300 * j])

SpecTransform == Init /\ [][NextTransform]_vars

-----------------------------------------------------------------------------
(* The scanline planners called on every small image *)

\* planHorizontalScanlines and planBidirectionalScanlines on one image, with
\* the target color and the tolerance of the model
PlanScanlines(imageData) ==
    /\ spCall = "none"
    /\ spCall' = "planned"
    /\ spImage' = imageData
    /\ spHorizontal' =
          planHorizontalScanlines(MatchingPixels(imageData, TargetColor, Tolerance),
                                  imageData.width, imageData.height)
    /\ spBidirectional' =
          planBidirectionalScanlines(MatchingPixels(imageData, TargetColor, Tolerance),
                                     imageData.width, imageData.height)
    /\ UNCHANGED <<tspVars, trackerVars, genVars, xfVars, plVars, kmVars, edVars, genParked, pureVars>>

NextScanline == \E width \in 1..MaxImageWidth : \E imageData \in Images(width) :
                   PlanScanlines(imageData)

SpecScanline == Init /\ [][NextScanline]_vars

-----------------------------------------------------------------------------
(* simplifyPolyline called on every small polyline *)

Simplify(pts, tolerance) ==
    /\ plCall = "none"
    /\ plCall' = "simplified"
    /\ plPoints' = pts
    /\ plTolerance' = tolerance
    /\ plResult' = simplifyPolyline(pts, tolerance)
    /\ UNCHANGED <<tspVars, trackerVars, genVars, xfVars, spVars, kmVars, edVars, genParked, pureVars>>

NextSimplify == \E pts \in Polylines, tolerance \in 0..1 : Simplify(pts, tolerance)

SpecSimplify == Init /\ [][NextSimplify]_vars

-----------------------------------------------------------------------------
(* findDominantColors called on every small image *)

\* findDominantColors up to the main loop: no sample rejects, no more samples
\* than colors requested resolves with the samples, otherwise the centroids
\* are initialized
FindDominantColors(data, numColors, maxIterations) ==
    /\ kmPhase = "none"
    /\ kmCall' = [data |-> data, numColors |-> numColors, maxIterations |-> maxIterations]
    /\ IF Len(extractColorSamples(data)) = 0
       THEN /\ kmPhase' = "rejected"
            /\ UNCHANGED <<kmLoop, kmResult>>
       ELSE IF Len(extractColorSamples(data)) <= numColors
       THEN /\ kmPhase' = "resolved"
            /\ kmResult' = extractColorSamples(data)
            /\ UNCHANGED kmLoop
       ELSE /\ kmPhase' = "clustering"
            /\ \E centroids \in kMeansPlusPlus(extractColorSamples(data), numColors, <<>>) :
                  kmLoop' = [centroids |-> centroids, iteration |-> 0, hasConverged |-> FALSE]
            /\ UNCHANGED kmResult
    /\ UNCHANGED <<tspVars, trackerVars, genVars, xfVars, spVars, plVars, edVars, genParked, pureVars>>

\* one iteration of the main loop
Iterate ==
    /\ kmPhase = "clustering"
    /\ kmLoop.iteration < kmCall.maxIterations /\ ~kmLoop.hasConverged
    /\ \E random \in [1..kmCall.numColors -> RandomColors] :
          LET newCentroids ==
                  calculateCentroids(
                      assignToClusters(extractColorSamples(kmCall.data), kmLoop.centroids),
                      random)
          IN kmLoop' = [centroids |-> newCentroids,
                        iteration |-> kmLoop.iteration + 1,
                        hasConverged |-> checkConvergence(kmLoop.centroids, newCentroids)]
    /\ UNCHANGED <<kmCall, kmPhase, kmResult>>
    /\ UNCHANGED <<tspVars, trackerVars, genVars, xfVars, spVars, plVars, edVars, genParked, pureVars>>

\* after the loop: resolve(centroids.map(clampRgb))
Resolve ==
    /\ kmPhase = "clustering"
    /\ ~(kmLoop.iteration < kmCall.maxIterations /\ ~kmLoop.hasConverged)
    /\ kmPhase' = "resolved"
    /\ kmResult' = [i \in 1..Len(kmLoop.centroids) |-> clampRgb(kmLoop.centroids[i])]
    /\ UNCHANGED <<kmCall, kmLoop>>
    /\ UNCHANGED <<tspVars, trackerVars, genVars, xfVars, spVars, plVars, edVars, genParked, pureVars>>

NextKMeans ==
    \/ \E n \in 1..MaxPixels, numColors \in 1..MaxColors, maxIterations \in 1..MaxIterationsGiven :
          \E data \in [1..n -> KmPixels] : FindDominantColors(data, numColors, maxIterations)
    \/ Iterate
    \/ Resolve

SpecKMeans == Init /\ [][NextKMeans]_vars

-----------------------------------------------------------------------------
(* detectEdges called on every small gray image *)

\* detectEdges(imageData, lowThreshold, highThreshold, 1, sigma) on a gray
\* image: gradients, suppression, hysteresis
DetectEdges(image, lowThreshold, highThreshold) ==
    /\ edPhase = "none"
    /\ edPhase' = "resolved"
    /\ edCall' = [image |-> image, lowThreshold |-> lowThreshold,
                  highThreshold |-> highThreshold]
    /\ edEdges' =
          hysteresis(
              nonMaximumSuppression(sobelFilter(image.data, image.width, image.height),
                                    image.width, image.height),
              image.width, image.height, lowThreshold, highThreshold)
    /\ UNCHANGED <<tspVars, trackerVars, genVars, xfVars, spVars, plVars, kmVars, genParked, pureVars>>

NextEdges ==
    /\ edPhase = "none"
    /\ \E image \in GrayImages, lowThreshold \in Thresholds, highThreshold \in Thresholds :
          DetectEdges(image, lowThreshold, highThreshold)

SpecEdges == Init /\ [][NextEdges]_vars

-----------------------------------------------------------------------------
(* The orderings of segments and contours: optimizeScanlineOrder called on *)
(* what planBidirectionalScanlines planned, and optimizeContourOrder on    *)
(* lists of polylines, both from several start positions                   *)

MaxOrderWidth == 4
MaxOrderHeight == 2
MaxContours == 3

\* pixels of an image of MaxOrderWidth x MaxOrderHeight: masks, and the
\* positions this._currentPosition can hold
OrderPixels == {[x |-> i, y |-> j] : i \in 0..(MaxOrderWidth - 1), j \in 0..(MaxOrderHeight - 1)}

\* the polylines the contours are taken from
OrderPolylines ==
    {<<Cm(0, 0), Cm(2, 0)>>, <<Cm(3, 1), Cm(3, 0)>>, <<Cm(1, 1), Cm(0, 1), Cm(0, 0)>>,
     <<Cm(2, 1), Cm(2, 1)>>}

OrderScanlines(mask, startPos) ==
    /\ pureCall' = [fn |-> "optimizeScanlineOrder",
                    segments |-> planBidirectionalScanlines(mask, MaxOrderWidth, MaxOrderHeight),
                    startPos |-> startPos]
    /\ pureReturn' = optimizeScanlineOrder(pureCall'.segments, startPos)
    /\ UNCHANGED <<tspVars, trackerVars, genVars, xfVars, spVars, plVars, kmVars, edVars, genParked>>

OrderContours(polylines, startPos) ==
    /\ pureCall' = [fn |-> "optimizeContourOrder", polylines |-> polylines, startPos |-> startPos]
    /\ pureReturn' = optimizeContourOrder(polylines, startPos)
    /\ UNCHANGED <<tspVars, trackerVars, genVars, xfVars, spVars, plVars, kmVars, edVars, genParked>>

NextOrder ==
    /\ pureCall.fn = "none"
    /\ \/ \E mask \in SUBSET OrderPixels, startPos \in OrderPixels : OrderScanlines(mask, startPos)
       \/ \E n \in 0..MaxContours :
             \E polylines \in [1..n -> OrderPolylines], startPos \in OrderPixels :
                OrderContours(polylines, startPos)

SpecOrder == Init /\ [][NextOrder]_vars

-----------------------------------------------------------------------------
(* The hysteresis called on suppressed magnitudes: images of               *)
(* MaxTrackWidth x MaxTrackHeight whose border is 0, as the suppression    *)
(* leaves it, at the default thresholds 50 and 100                         *)

MaxTrackWidth == 5
MaxTrackHeight == 4

\* magnitudes (squared) below the low threshold, between the two, and above
\* the high one
Magnitudes == {0, 60 * 60, 120 * 120}

Hysteresis(magnitude, lowThreshold, highThreshold) ==
    /\ pureCall' = [fn |-> "_hysteresis", magnitude |-> magnitude,
                    width |-> MaxTrackWidth, height |-> MaxTrackHeight,
                    lowThreshold |-> lowThreshold, highThreshold |-> highThreshold]
    /\ pureReturn' = hysteresis(magnitude, MaxTrackWidth, MaxTrackHeight,
                                lowThreshold, highThreshold)
    /\ UNCHANGED <<tspVars, trackerVars, genVars, xfVars, spVars, plVars, kmVars, edVars, genParked>>

NextTrack ==
    /\ pureCall.fn = "none"
    /\ \E inner \in [{idx \in 0..(MaxTrackWidth * MaxTrackHeight - 1) :
                        Interior(idx, MaxTrackWidth, MaxTrackHeight)} -> Magnitudes] :
          Hysteresis([idx \in 0..(MaxTrackWidth * MaxTrackHeight - 1) |->
                         IF Interior(idx, MaxTrackWidth, MaxTrackHeight) THEN inner[idx] ELSE 0],
                     50, 100)

SpecTrack == Init /\ [][NextTrack]_vars

-----------------------------------------------------------------------------
(* The downsampling of a layer's pixels at the densities 100, 50 and 25    *)

\* the pixels the layers are made of: neighbours, and pixels 4, 10, 14 and
\* 20 apart
SamplePixels ==
    {Cm(0, 0), Cm(1, 0), Cm(2, 0), Cm(4, 0), Cm(10, 0), Cm(14, 0), Cm(20, 0), Cm(0, 1)}

DownsamplePixels(opaque, density) ==
    /\ pureCall' = [fn |-> "_downsamplePixels",
                    pixels |-> extractPixelCoordinates(LayerOf(opaque).imageData),
                    density |-> density]
    /\ pureReturn' = downsamplePixels(pureCall'.pixels, density)
    /\ UNCHANGED <<tspVars, trackerVars, genVars, xfVars, spVars, plVars, kmVars, edVars, genParked>>

NextDownsample ==
    /\ pureCall.fn = "none"
    /\ \E opaque \in SUBSET SamplePixels, density \in {100, 50, 25} :
          DownsamplePixels(opaque, density)

SpecDownsample == Init /\ [][NextDownsample]_vars

-----------------------------------------------------------------------------
(* The color separation of an image rewritten onto a palette, as the       *)
(* application runs it: quantizeImage, then separateColors at tolerance 30 *)

MaxPalette == 3
MaxSeparated == 3

\* the colors of the palettes: two dark ones 20 apart, a red and a green
PaletteColors == {Rgb(0, 0, 0), Rgb(20, 0, 0), Rgb(200, 0, 0), Rgb(0, 200, 0)}

\* the pixels of the images: a dark and a red one, opaque, half transparent
\* or transparent
SeparatedPixels ==
    {[r |-> c.r, g |-> c.g, b |-> c.b, a |-> a] :
        c \in {Rgb(10, 0, 0), Rgb(190, 10, 0)}, a \in {0, 128, 255}}

SeparateColors(data, palette) ==
    /\ pureCall' = [fn |-> "separateColors", imageData |-> quantizeImage(data, palette),
                    palette |-> palette, tolerance |-> 30]
    /\ pureReturn' = separateColors(pureCall'.imageData, palette, 30)
    /\ UNCHANGED <<tspVars, trackerVars, genVars, xfVars, spVars, plVars, kmVars, edVars, genParked>>

NextSeparate ==
    /\ pureCall.fn = "none"
    /\ \E n \in 1..MaxPalette :
          \E palette \in [1..n -> PaletteColors], data \in [1..MaxSeparated -> SeparatedPixels] :
             SeparateColors(data, palette)

SpecSeparate == Init /\ [][NextSeparate]_vars

-----------------------------------------------------------------------------
(* The contours of every black and white edge map of MaxTraceWidth x       *)
(* MaxTraceHeight pixels, at the threshold 128 of traceEdges               *)

MaxTraceWidth == 3
MaxTraceHeight == 3

FindEdgeContours(edgeMap) ==
    /\ pureCall' = [fn |-> "findEdgeContours", edgeMap |-> edgeMap, threshold |-> 128]
    /\ pureReturn' = findEdgeContours(edgeMap, 128)
    /\ UNCHANGED <<tspVars, trackerVars, genVars, xfVars, spVars, plVars, kmVars, edVars, genParked>>

NextTrace ==
    /\ pureCall.fn = "none"
    /\ \E data \in [0..(MaxTraceWidth * MaxTraceHeight - 1) -> {0, 255}] :
          FindEdgeContours([data |-> data, width |-> MaxTraceWidth, height |-> MaxTraceHeight])

SpecTrace == Init /\ [][NextTrace]_vars

-----------------------------------------------------------------------------
(* findNearest on an index of up to MaxIndexed points, ring by ring.  The  *)
(* radius has no bound in the code (maxRadius is Infinity); beyond         *)
(* MaxRing no cell holds a point, every further ring is searched with the  *)
(* same outcome, and the radius of the model stays at MaxRing.             *)

MaxIndexed == 2
MaxRing == 10

\* the points indexed and asked for
IndexedPoints == {Cm(0, 0), Cm(3, 3), Cm(6, 6), Cm(6, 0), Cm(9, 3)}
QueryPoints == {Cm(0, 0), Cm(3, 0), Cm(9, 9)}

\* new SpatialIndex(pts).findNearest(point) is called: the locals before the
\* first ring
FindNearest(pts, point) ==
    /\ pureCall.fn = "none"
    /\ pureCall' = [fn |-> "findNearest", points |-> pts, gridSize |-> GridSizeSquared(pts),
                    point |-> point, radius |-> 0, nearestIndex |-> -1,
                    nearestDistance |-> NoDistance, phase |-> "searching"]
    /\ pureReturn' = <<>>
    /\ UNCHANGED <<tspVars, trackerVars, genVars, xfVars, spVars, plVars, kmVars, edVars, genParked>>

\* one ring is searched; the loop ends and the nearest point is returned, or
\* goes on with the next radius
Ring ==
    /\ pureCall.fn = "findNearest"
    /\ pureCall.phase = "searching"
    /\ LET s == SearchRing(pureCall.points, pureCall.gridSize, pureCall.point, pureCall.radius,
                           pureCall.nearestIndex, pureCall.nearestDistance)
           stop == RingBreaks(s, pureCall.gridSize, pureCall.radius)
       IN /\ pureCall' = [pureCall EXCEPT !.nearestIndex = s.nearestIndex,
                                          !.nearestDistance = s.nearestDistance,
                                          !.radius = IF stop THEN @ ELSE Min(@ + 1, MaxRing),
                                          !.phase = IF stop THEN "returned" ELSE @]
          /\ pureReturn' = IF stop THEN <<s.nearestIndex>> ELSE pureReturn
    /\ UNCHANGED <<tspVars, trackerVars, genVars, xfVars, spVars, plVars, kmVars, edVars, genParked>>

NextNearest ==
    \/ /\ pureCall.fn = "none"
       /\ \E n \in 0..MaxIndexed :
             \E pts \in [1..n -> IndexedPoints], point \in QueryPoints : FindNearest(pts, point)
    \/ Ring

\* the loop of a call that has not returned goes on
SpecNearest == Init /\ [][NextNearest]_vars /\ WF_pureVars(Ring)

-----------------------------------------------------------------------------
(* Claims about the tour planner *)

IsPermutation(t, n) == Len(t) = n /\ Range(t) = 0..(n - 1)

\* C1: for every point set and every start index, the tour returned by
\* nearestNeighbor and by solveTSP (brute-force or spatial-index search, with
\* or without 2-opt) is a permutation of all input indices.
C1_TourIsPermutation ==
    tspPhase = "solved" =>
        /\ IsPermutation(nnTour, Len(points))
        /\ IsPermutation(tour, Len(points))

\* C2: for at least 4 points, the tour returned by twoOpt is no longer than
\* the nearest-neighbor tour it was given.
C2_TwoOptNeverLonger ==
    (tspPhase = "solved" /\ tspOptimize /\ Len(nnTour) >= 4) =>
        calculateTourLength(tour, points) <= calculateTourLength(nnTour, points)

\* C2 witness: 2-opt was given a tour of at least 4 points and returned a
\* different, strictly shorter one
C2_Witness ==
    /\ tspPhase = "solved" /\ tspOptimize /\ Len(nnTour) >= 4
    /\ tour # nnTour
    /\ calculateTourLength(tour, points) < calculateTourLength(nnTour, points)

-----------------------------------------------------------------------------
(* Claims about the paint tracker *)

UsageCalls == {"addUsage", "addLineUsage", "addDotUsage"}

\* C3: after any sequence of reset, usage and refill calls, remaining equals
\* capacity minus the paint consumed since the most recent reset or refill,
\* and remaining equals capacity immediately after refill().
C3_RemainingIsCapacityMinusConsumed ==
    /\ tracker.remainingCapacity = tracker.paintCapacity - sinceRefill
    /\ (trackerCall = "refill" => tracker.remainingCapacity = tracker.paintCapacity)

\* C3 witness: a usage call after a refill that itself followed consumption
C3_Witness ==
    /\ trackerCall \in UsageCalls /\ ~trackerThrew
    /\ tracker.paintCapacity > 0
    /\ tracker.refillCount >= 1
    /\ sinceRefill > 0
    /\ tracker.consumedPaint > sinceRefill

\* C4: a usage call returns true exactly when, after its deduction, remaining
\* is at most 10% of capacity; after reset(C) and usages totalling exactly C,
\* needsRefill() is true.
C4_ReturnsTrueIffAtMostTenth ==
    /\ (trackerCall \in UsageCalls /\ ~trackerThrew) =>
           (trackerReturn <=> 10 * (tracker.paintCapacity - sinceRefill) <= tracker.paintCapacity)
    /\ (tracker.paintCapacity > 0 /\ tracker.refillCount = 0
            /\ tracker.consumedPaint = tracker.paintCapacity) => needsRefill(tracker)

\* C4 witness: a usage call that leaves exactly 10% of the capacity and
\* returns true
C4_Witness ==
    /\ trackerCall \in UsageCalls /\ ~trackerThrew
    /\ tracker.paintCapacity > 0
    /\ 10 * tracker.remainingCapacity = tracker.paintCapacity
    /\ trackerReturn

-----------------------------------------------------------------------------
(* Claims about the generated stream *)

\* how many lines of s carry the command op
Count(s, op) == Cardinality({k \in DOMAIN s : s[k].op = op})

\* the places of the separators with the given label
Labelled(s, label) == {k \in DOMAIN s : s[k].op = "separator" /\ s[k].text = label}

IsCommand(l) == l.op \notin {"comment", "separator", "blank"}

\* the stream without its comments and blank lines
Commands(s) == SelectSeq(s, IsCommand)

\* the lines of layer i of n in the stream s: from its separator up to the
\* separator of the next layer, or of the end sequence
LayerStart(s, i) == CHOOSE k \in DOMAIN s : s[k] = separator("COLOR LAYER", i)

LayerEnd(s, i, n) ==
    IF i < n THEN LayerStart(s, i + 1) - 1
    ELSE (CHOOSE k \in DOMAIN s : s[k] = separator("END SEQUENCE", 0)) - 1

LayerLines(s, i, n) == SubSeq(s, LayerStart(s, i), LayerEnd(s, i, n))

\* the sample points of a layer that survive the downsampling
SamplePoints(layer) ==
    downsamplePixels(extractPixelCoordinates(layer.imageData),
                     genConfig.paint.pointillism.dotDensity)

\* every M3 of s stands in a sequence G0, M3, G4, M5
DotsWellFormed(s) ==
    \A k \in DOMAIN s :
        s[k].op = "M3" =>
            /\ k > 1 /\ k + 2 <= Len(s)
            /\ s[k - 1].op = "G0" /\ s[k + 1].op = "G4" /\ s[k + 2].op = "M5"

\* the cable lengths of the refill position under the config of the run
RunRefillMove ==
    LET c == RefillCoords(genConfig, createAnchorConfig(genConfig.canvas))
    IN G0(c.X, c.Y, c.Z, genConfig.robot.moveSpeed)

\* C5: in dot mode, at 100% density over a valid anchor triangle, every layer
\* of a generated stream holds exactly one M3/M5 pair per surviving sample
\* point, each dot being emitted as G0, M3, G4, M5.
C5_OneDotPerSamplePoint ==
    (genPhase = "done" /\ genConfig.paint.paintingMode = "pointillism"
        /\ genConfig.canvas = CornerCanvas) =>
        \A i \in 1..Len(colorLayers) :
            LET seg == LayerLines(result, i, Len(colorLayers))
            IN /\ Count(seg, "M3") = Len(SamplePoints(colorLayers[i]))
               /\ Count(seg, "M5") = Len(SamplePoints(colorLayers[i]))
               /\ DotsWellFormed(seg)

\* C6: every stream generate returns begins, comments and blank lines aside,
\* with G21, G90, G28, M5 and ends with M5, G28, M84, and holds G28 nowhere
\* else: one homing at the start and one at the end.
C6_PreambleAndTermination ==
    genPhase = "done" =>
        LET c == Commands(result)
        IN /\ Len(c) >= 7
           /\ SubSeq(c, 1, 4) = <<G21, G90, G28, M5>>
           /\ SubSeq(c, Len(c) - 2, Len(c)) = <<M5, G28, M84>>
           /\ Count(result, "G28") = 2

\* a stream of two layers with a color change and a refill in between
C6_Witness ==
    /\ genPhase = "done"
    /\ Len(colorLayers) = 2
    /\ tracker.refillCount > 0
    /\ Count(result, "M6") = 1

\* C7: the stream of a run with N color layers holds exactly N-1 color-change
\* sequences: none in the first layer, and one at the start of every later
\* layer, before any paint command of that layer; each is M6, a rapid move to
\* the refill position and a dwell of 60 seconds.
C7_ColorChangeBetweenLayers ==
    (genPhase = "done" /\ Len(colorLayers) >= 1) =>
        LET n == Len(colorLayers)
        IN /\ Count(result, "M6") = n - 1
           /\ Cardinality(Labelled(result, "COLOR CHANGE")) = n - 1
           /\ Count(LayerLines(result, 1, n), "M6") = 0
           /\ \A i \in 2..n :
                 LET c == Commands(LayerLines(result, i, n))
                 IN /\ Len(c) >= 3
                    /\ SubSeq(c, 1, 3) = <<M6, RunRefillMove, G4(600)>>
                    /\ Count(c, "M6") = 1

\* a stream of two painted layers with its one color change
C7_Witness ==
    /\ genPhase = "done"
    /\ Len(colorLayers) = 2
    /\ Count(result, "M6") = 1
    /\ Count(LayerLines(result, 1, 2), "M3") > 0
    /\ Count(LayerLines(result, 2, 2), "M3") > 0

\* the refill sequence that starts at line k of s: announced by its comment,
\* a rapid move to the refill position, a dwell of 30 seconds, a rapid move
\* back
RefillAt(s, k) ==
    /\ k > 1 /\ k + 6 <= Len(s)
    /\ s[k - 1] = comment("Paint low - refill needed", 0)
    /\ s[k + 2] = RunRefillMove
    /\ s[k + 4] = G4(300)
    /\ s[k + 6].op = "G0"

\* C8: low paint never ends a run.  Throughout a run every low-paint signal
\* of the tracker has been answered by one refill sequence and one refill():
\* the refill sequences emitted, the refill count of the tracker and the
\* signals are equal in number; and the stream that is returned holds every
\* planned primitive, and as many refill sequences as the tracker counts.
C8_RefillsNeverAbort ==
    /\ Cardinality(Labelled(lines, "REFILL SEQUENCE")) = tracker.refillCount
    /\ tracker.refillCount = signals
    /\ \A k \in Labelled(lines, "REFILL SEQUENCE") : RefillAt(lines, k)
    /\ genPhase = "done" =>
          /\ Count(result, "M3") = genPlanned
          /\ Cardinality(Labelled(result, "REFILL SEQUENCE")) = tracker.refillCount

\* a returned stream with two refills in it and four primitives or more
C8_Witness ==
    /\ genPhase = "done"
    /\ tracker.refillCount >= 2
    /\ signals >= 2
    /\ genPlanned >= 4

\* the top anchors coincide, or the three anchors lie on one line
Degenerate(a) ==
    \/ a.topLeft = a.topRight
    \/ (a.topRight.x - a.topLeft.x) * (a.bottomCenter.y - a.topLeft.y)
          = (a.topRight.y - a.topLeft.y) * (a.bottomCenter.x - a.topLeft.x)

\* C9: a run whose anchors are degenerate is rejected at its start: it has
\* failed, no cable length has been computed for a move, and no stream is
\* returned.
C9_DegenerateAnchorsRejected ==
    (genRuns > 0 /\ Degenerate(createAnchorConfig(genConfig.canvas))) =>
        /\ genPhase = "failed"
        /\ result = <<>>
        /\ Count(lines, "G0") = 0

\* a capacity that is not a number, or a number that is zero or negative
NotAPositiveNumber(c) == c.type # "number" \/ c.value <= 0

-----------------------------------------------------------------------------
(* Claims about the coordinate transformer *)

\* C11: for every point and every anchor triangle that is not degenerate, the
\* inverse transform of the forward transform is a point within 0.1 mm of
\* the original.
C11_RoundTripWithinTenth ==
    (xfCall = "roundTrip" /\ ~Degenerate(xfAnchors)) =>
        /\ ~xfBack.threw /\ ~xfBack.null
        /\ Dist2(xfBack, xfPoint) <= 10 * 10

\* the forward transform of (500, 300) under the anchors (0,0), (2000,0),
\* (1000,1500) has been computed
ExampleDone ==
    xfCall = "forward" /\ xfAnchors = ExampleAnchors /\ xfPoint = Cm(500, 300)

-----------------------------------------------------------------------------
(* Claims about the scanline planners *)

\* the segments of row y among the segments s
InRow(s, y) == {k \in DOMAIN s : s[k].startY = y}

\* row y of the planned image holds opaque pixels of the target color only
FullRow(y) ==
    \A x \in 0..(spImage.width - 1) :
        spImage.data[y * spImage.width + x] = [r |-> 255, g |-> 255, b |-> 255, a |-> 255]

\* the segments s hold, for row y, one segment over x = 0..W-1 of length W
OneFullSegment(s, y) ==
    /\ Cardinality(InRow(s, y)) = 1
    /\ \A k \in InRow(s, y) :
          /\ s[k].startX = 0 /\ s[k].endX = spImage.width - 1
          /\ s[k].length = spImage.width

\* C13: for a row made of matching pixels only, planHorizontalScanlines and
\* planBidirectionalScanlines (rows scanned left to right and right to left)
\* each emit exactly one segment, over x = 0..W-1 and of length W.
C13_FullRowOneSegment ==
    spCall = "planned" =>
        \A y \in 0..(spImage.height - 1) :
            FullRow(y) => OneFullSegment(spHorizontal, y) /\ OneFullSegment(spBidirectional, y)

\* the pixels the claim calls matching: color distance to the target at most
\* the tolerance, alpha greater than 0
StatedMatching ==
    {p \in [x : 0..(spImage.width - 1), y : 0..(spImage.height - 1)] :
        LET px == spImage.data[p.y * spImage.width + p.x]
        IN /\ px.a > 0
           /\ (px.r - 255) * (px.r - 255) + (px.g - 255) * (px.g - 255)
                 + (px.b - 255) * (px.b - 255) <= 30 * 30}

\* the pixels of the segment s[k]
Covered(s, k) == {[x |-> x, y |-> s[k].startY] : x \in s[k].startX..s[k].endX}

\* the ranges of the segments s are pairwise disjoint maximal runs of the
\* set, and their union is the set
RunsOf(s, set) ==
    /\ \A j, k \in DOMAIN s : j # k => Covered(s, j) \cap Covered(s, k) = {}
    /\ UNION {Covered(s, k) : k \in DOMAIN s} = set
    /\ \A k \in DOMAIN s :
          /\ s[k].startX <= s[k].endX
          /\ [x |-> s[k].startX - 1, y |-> s[k].startY] \notin set
          /\ [x |-> s[k].endX + 1, y |-> s[k].startY] \notin set

\* C14: the ranges of the segments of either planner are pairwise disjoint
\* maximal runs whose union is the set of matching pixels, a pixel matching
\* when its color is within the tolerance of the target and its alpha is
\* greater than 0.
C14_SegmentsCoverMatching ==
    spCall = "planned" =>
        RunsOf(spHorizontal, StatedMatching) /\ RunsOf(spBidirectional, StatedMatching)

-----------------------------------------------------------------------------
(* Claims about the edge tracer *)

\* C15: simplifyPolyline with tolerance 0 returns the point sequence it was
\* given, unchanged, for every polyline.
C15_ToleranceZeroIsIdentity ==
    (plCall = "simplified" /\ plTolerance = 0) => plResult = plPoints

-----------------------------------------------------------------------------
(* Claims about the color quantizer *)

\* the image of the call has a pixel that is not transparent, and all such
\* pixels have the color c
SingleColor(c) ==
    /\ \E i \in DOMAIN kmCall.data : kmCall.data[i].a # 0
    /\ \A i \in DOMAIN kmCall.data :
          kmCall.data[i].a # 0 => Rgb(kmCall.data[i].r, kmCall.data[i].g, kmCall.data[i].b) = c

\* C16: for an image whose opaque pixels share one color, findDominantColors
\* resolves with numColors colors, every one of them that color, whatever the
\* random choices.
C16_SingleColorGivesKCopies ==
    \A c \in RandomColors :
        (kmPhase = "resolved" /\ SingleColor(c)) =>
            /\ Len(kmResult) = kmCall.numColors
            /\ \A i \in DOMAIN kmResult : kmResult[i] = c

-----------------------------------------------------------------------------
(* Claims about the edge detector *)

\* C17: whatever the image and the thresholds, no pixel of the first or last
\* row or column of the edge map is 255.
C17_BorderNeverEdge ==
    edPhase = "resolved" =>
        \A idx \in DOMAIN edEdges :
            ~Interior(idx, edCall.image.width, edCall.image.height) => edEdges[idx] # 255

-----------------------------------------------------------------------------
(* Claims about the lines of the stream *)

\* the command vocabulary
Vocabulary == {"G0", "G1", "M3", "M5", "M6", "G4", "G28", "G21", "G90", "M84"}

\* C18: every line of a stream generate returns is empty, a comment starting
\* with ';', or one command of G0, G1, M3, M5, M6, G4, G28, G21, G90, M84.
C18_LinesEmptyCommentOrCommand ==
    genPhase = "done" =>
        \A k \in DOMAIN result :
            result[k].op \in {"blank", "comment", "separator"} \cup Vocabulary

\* a returned stream with empty lines, comments, moves and a color change
C18_Witness ==
    /\ genPhase = "done"
    /\ Count(result, "blank") > 0
    /\ Count(result, "comment") > 0
    /\ Count(result, "G1") > 0
    /\ Count(result, "M6") > 0

\* C18 as stated: every line of a returned stream is a comment or a command
\* of the vocabulary.
C18_LinesCommentOrCommand ==
    genPhase = "done" =>
        \A k \in DOMAIN result : result[k].op \in {"comment", "separator"} \cup Vocabulary

-----------------------------------------------------------------------------
(* Claims about runs that follow or interleave with other runs *)

\* C19: the stream a run returns depends on its inputs only: a run on a
\* generator that has completed an earlier run returns the stream the same
\* inputs give on a fresh generator.
C19_StreamDependsOnInputsOnly ==
    (genPhase = "done" /\ genRuns >= 1) =>
        result = GenerateAlone(genConfig, colorLayers, genEdgeMap, NoPosition, ReuseDotSize)

\* a call in the given phase returned what it returns when it runs alone on
\* a fresh generator: the same stream, or no stream if it throws
AsAlone(phase, config, layers, edge, stream) ==
    phase \in {"done", "failed"} =>
        (IF phase = "done" THEN stream ELSE <<>>)
            = GenerateAlone(config, layers, edge, NoPosition, ReuseDotSize)

\* C20: two calls of generate on one generator that interleave at their
\* awaits share neither a tracker nor a line buffer, and each returns the
\* stream it returns when it runs alone.
C20_InterleavingHasNoEffect ==
    genParked.phase # "none" =>
        /\ AsAlone(genPhase, genConfig, colorLayers, genEdgeMap, result)
        /\ AsAlone(genParked.phase, genParked.config, genParked.layers, genParked.edge,
                   genParked.result)

-----------------------------------------------------------------------------
(* Claims about degenerate content *)

\* the lines generateLayerGcode puts at the head of layer i (from 1) of a run
\* under the config cfg
HeadOfLayer(cfg, layer, i) ==
    LayerHead([lines |-> <<>>], Len(extractPixelCoordinates(layer.imageData)), i - 1, cfg,
              createAnchorConfig(cfg.canvas)).lines

\* s begins with the lines of p
StartsWith(s, p) == Len(s) >= Len(p) /\ SubSeq(s, 1, Len(p)) = p

\* s ends with the lines of p
EndsWith(s, p) == Len(s) >= Len(p) /\ SubSeq(s, Len(s) - Len(p) + 1, Len(s)) = p

\* C21: degenerate content does not fail a run.  A run never throws in a
\* layer without opaque pixels, nor on an edge map without contours; and the
\* stream of a run with such a layer or edge map begins with the preamble,
\* ends with the termination sequence, and holds for the empty layer its
\* header, its color change when it is not the first layer, and no M3.
C21_EmptyContentStillSequenced ==
    /\ (genPhase = "failed" /\ ~ResetRejects(genConfig.robot.paintCapacity)) =>
          IF Len(colorLayers) > 0
          THEN colorLayers[genLayer + 1].imageData.opaque # {}
          ELSE ~genEdgeMap.present
    /\ genPhase = "done" =>
          /\ StartsWith(result, generateHeader(genConfig))
          /\ EndsWith(result, generateFooter)
          /\ \A i \in 1..Len(colorLayers) :
                colorLayers[i].imageData.opaque = {} =>
                   LET seg == LayerLines(result, i, Len(colorLayers))
                   IN /\ StartsWith(seg, HeadOfLayer(genConfig, colorLayers[i], i))
                      /\ (i > 1 => Count(seg, "M6") = 1)
                      /\ Count(seg, "M3") = 0
          /\ (Len(colorLayers) = 0 /\ genEdgeMap.traced = <<>>) =>
                /\ Labelled(result, "EDGE TRACING") # {}
                /\ Count(result, "M3") = 0

\* a returned stream whose second layer is empty and follows a painted one
C21_Witness ==
    /\ genPhase = "done"
    /\ Len(colorLayers) = 2
    /\ colorLayers[1].imageData.opaque # {}
    /\ colorLayers[2].imageData.opaque = {}
    /\ Count(result, "M3") > 0

-----------------------------------------------------------------------------
(* Claims about the place of the refill sequence *)

\* the places of the refill dwells among the commands c
RefillDwells(c) == {k \in DOMAIN c : c[k] = G4(300)}

\* the refill whose dwell is command k of c comes before the commands of the
\* primitive it was signalled for: the move back to the painting position is
\* followed by the rapid move of a primitive to that position and by its M3
RefillBeforePrimitive(c, k) ==
    /\ k + 3 <= Len(c)
    /\ c[k + 1].op = "G0"
    /\ c[k + 2] = c[k + 1]
    /\ c[k + 3] = M3

\* C22: in the dot, stroke and contour modes alike, a refill sequence stands
\* in the stream before the motion and actuation commands of the primitive
\* whose paint usage made the tracker signal it.
C22_RefillBeforePrimitive ==
    LET c == Commands(lines)
    IN \A k \in RefillDwells(c) : RefillBeforePrimitive(c, k)

\* the same in the dot and stroke modes only
RefillBeforeDotOrStroke ==
    Len(colorLayers) > 0 => C22_RefillBeforePrimitive

\* a dot or stroke run with a refill
RefillInLayers == Len(colorLayers) > 0 /\ genPhase = "done" /\ tracker.refillCount > 0

-----------------------------------------------------------------------------
(* Claims about the ordering of segments and contours *)

\* the permutations of 1..n
Orderings(n) == {p \in [1..n -> 1..n] : \A i, j \in 1..n : i # j => p[i] # p[j]}

\* out is a greedy ordering of the items with the given start and end points
\* from startPos.  out[k] is [start, end, reversed], the end points of the
\* item as it was given and the flag it got; it is entered at its end when
\* reversed and at its start otherwise, and left at the other point.  Every
\* item is taken once (p), the point of entry is as near to the current
\* position as any end point of an item not yet taken, and of the end points
\* equally near the first met wins: items in the order given, the start of
\* an item before its end.
Greedy(starts, ends, startPos, out) ==
    /\ Len(out) = Len(starts)
    /\ \E p \in Orderings(Len(starts)) :
          \A k \in 1..Len(out) :
             LET current == IF k = 1 THEN startPos
                            ELSE IF out[k - 1].reversed THEN out[k - 1].start
                                                        ELSE out[k - 1].end
                 d == Dist2(current, IF out[k].reversed THEN ends[p[k]] ELSE starts[p[k]])
             IN /\ out[k].start = starts[p[k]]
                /\ out[k].end = ends[p[k]]
                /\ \A j \in k..Len(out) :
                      /\ d <= Dist2(current, starts[p[j]])
                      /\ d <= Dist2(current, ends[p[j]])
                      /\ p[j] < p[k] => /\ d < Dist2(current, starts[p[j]])
                                        /\ d < Dist2(current, ends[p[j]])
                /\ out[k].reversed => d < Dist2(current, starts[p[k]])

\* the end points of segments, given or ordered
SegmentEnds(segments) ==
    [i \in 1..Len(segments) |->
        [start |-> [x |-> segments[i].startX, y |-> segments[i].startY],
         end |-> [x |-> segments[i].endX, y |-> segments[i].endY],
         reversed |-> segments[i].reversed]]

\* the end points of polylines as they were given
PolylineEnds(polylines) ==
    [i \in 1..Len(polylines) |->
        [start |-> polylines[i][1], end |-> polylines[i][Len(polylines[i])]]]

\* the end points the ordered contours had when they were given: a reversed
\* contour holds its points in the opposite order
ContourEnds(ordered) ==
    [i \in 1..Len(ordered) |->
        LET pts == ordered[i].points
        IN [start |-> IF ordered[i].reversed THEN pts[Len(pts)] ELSE pts[1],
            end |-> IF ordered[i].reversed THEN pts[1] ELSE pts[Len(pts)],
            reversed |-> ordered[i].reversed]]

\* the ordering returned by the last call is greedy
OrderIsGreedy ==
    /\ pureCall.fn = "optimizeScanlineOrder" =>
          LET given == SegmentEnds(pureCall.segments)
          IN Greedy([i \in DOMAIN given |-> given[i].start], [i \in DOMAIN given |-> given[i].end],
                    pureCall.startPos, SegmentEnds(pureReturn))
    /\ pureCall.fn = "optimizeContourOrder" =>
          LET given == PolylineEnds(pureCall.polylines)
          IN Greedy([i \in DOMAIN given |-> given[i].start], [i \in DOMAIN given |-> given[i].end],
                    pureCall.startPos, ContourEnds(pureReturn))

\* C23: the ordering of segments and of contours is greedy over the end
\* points for every number of items, a single one included: every step takes
\* the nearest start or end point of the items not yet taken, an item is
\* marked reversed exactly when it is entered at its end, every item appears
\* once, and the first candidate met wins a tie.
C23_OrderingIsGreedy == OrderIsGreedy

\* the same for two items or more
GreedyBeyondOne ==
    (pureCall.fn # "none" /\ Len(pureReturn) >= 2) => OrderIsGreedy

\* an ordering of three items of which one is reversed
ReversedAmongThree ==
    /\ pureCall.fn = "optimizeContourOrder"
    /\ Len(pureReturn) = 3
    /\ \E k \in 1..3 : pureReturn[k].reversed

-----------------------------------------------------------------------------
(* Claims about the hysteresis *)

\* the eight neighbours of an interior pixel
Neighbours(idx, width) ==
    {idx + ky * width + kx : ky \in {-1, 0, 1}, kx \in {-1, 0, 1}} \ {idx}

\* the magnitude (squared) lies in [low, high)
IsWeak(m, lowThreshold, highThreshold) ==
    m >= lowThreshold * lowThreshold /\ m < highThreshold * highThreshold

\* C24: an interior pixel whose suppressed magnitude lies in [low, high) ends
\* as 255 exactly when one of its 8 neighbours had a magnitude >= high, and
\* as 0 otherwise, whatever the order of the visit.
C24_WeakNeedsStrongNeighbour ==
    pureCall.fn = "_hysteresis" =>
        \A idx \in DOMAIN pureReturn :
            (/\ Interior(idx, pureCall.width, pureCall.height)
             /\ IsWeak(pureCall.magnitude[idx], pureCall.lowThreshold, pureCall.highThreshold)) =>
                pureReturn[idx] =
                    IF \E n \in Neighbours(idx, pureCall.width) :
                          pureCall.magnitude[n] >= pureCall.highThreshold * pureCall.highThreshold
                    THEN 255 ELSE 0

\* a weak interior pixel next to a strong one ends as 255, and every pixel
\* ends as 255 or 0
WeakBesideStrongIsKept ==
    pureCall.fn = "_hysteresis" =>
        \A idx \in DOMAIN pureReturn :
            /\ pureReturn[idx] \in {0, 255}
            /\ (/\ Interior(idx, pureCall.width, pureCall.height)
                /\ IsWeak(pureCall.magnitude[idx], pureCall.lowThreshold, pureCall.highThreshold)
                /\ \E n \in Neighbours(idx, pureCall.width) :
                      pureCall.magnitude[n] >= pureCall.highThreshold * pureCall.highThreshold)
               => pureReturn[idx] = 255

-----------------------------------------------------------------------------
(* Claims about the downsampling *)

\* the cell of a pixel on a grid of the given spacing
CellAt(p, spacing) == <<p.x \div spacing, p.y \div spacing>>

\* sampled holds one pixel of pixels for every cell of the grid that pixels
\* occupy, and no other
OnePerCell(pixels, sampled, spacing) ==
    /\ Range(sampled) \subseteq Range(pixels)
    /\ \A i, j \in DOMAIN sampled :
          i # j => CellAt(sampled[i], spacing) # CellAt(sampled[j], spacing)
    /\ {CellAt(sampled[i], spacing) : i \in DOMAIN sampled}
          = {CellAt(pixels[i], spacing) : i \in DOMAIN pixels}

\* the spacing stated for a density: 1 pixel at 100%, 2 at 50%, 4 at 25%
StatedSpacing(density) == 100 \div density

\* C25: the downsampling keeps one pixel per occupied cell of a grid whose
\* spacing is 1 pixel at 100% density (every opaque pixel is kept), 2 pixels
\* at 50% and 4 pixels at 25%.
C25_SpacingOneTwoFour ==
    pureCall.fn = "_downsamplePixels" =>
        /\ OnePerCell(pureCall.pixels, pureReturn, StatedSpacing(pureCall.density))
        /\ pureCall.density = 100 => pureReturn = pureCall.pixels

\* one pixel is kept per occupied cell of the grid of the spacing computed
OnePerComputedCell ==
    pureCall.fn = "_downsamplePixels" =>
        OnePerCell(pureCall.pixels, pureReturn, Spacing(pureCall.density))

-----------------------------------------------------------------------------
(* Claims about the start index of the tour *)

\* the color layer generateColorLayersGcode turns to next
UpcomingLayer == colorLayers[genLayer + 2]

\* a dot run has finished a layer and is about to plan the next one, whose
\* sampled pixels are toured by solveTSP
AboutToPlanTour ==
    /\ genPhase = "layerDone"
    /\ genLayer + 1 < Len(colorLayers)
    /\ genConfig.paint.paintingMode = "pointillism"
    /\ Len(SamplePoints(UpcomingLayer)) \in 1..DotCap

StartIndexInPixels ==
    AboutToPlanTour =>
        StartIndex(extractPixelCoordinates(UpcomingLayer.imageData), genPosition)
            \in Indices(extractPixelCoordinates(UpcomingLayer.imageData))

-----------------------------------------------------------------------------
(* Claims about the nozzle during travel *)

\* the M3 at line k of s has its M5 at line m: between the two the stream
\* holds nothing but G1 paint moves and the dwell of a dot
SprayEndsAt(s, k, m) ==
    /\ s[m] = M5
    /\ \A j \in (k + 1)..(m - 1) : s[j].op = "G1" \/ s[j] = G4(1)

\* C27: the nozzle is off whenever the robot travels.  In the stream of a
\* run, as far as it is written, every M3 is followed by an M5 with only G1
\* paint moves or the dwell of a dot in between: no other M3, no rapid move
\* G0, no G28, no M6, no line of a refill or color-change sequence; and the
\* stream returned ends with the nozzle off, M5 being its last nozzle command.
C27_NozzleOffWhileTravelling ==
    /\ \A k \in DOMAIN lines :
          lines[k] = M3 => \E m \in (k + 1)..Len(lines) : SprayEndsAt(lines, k, m)
    /\ genPhase = "done" =>
          LET nozzle == SelectSeq(result, LAMBDA l : l.op \in {"M3", "M5"})
          IN nozzle # <<>> /\ nozzle[Len(nozzle)] = M5

\* a returned stream of two contours, one of them of two paint moves, with a
\* refill
C27_Witness ==
    /\ genPhase = "done"
    /\ genEdgeMap.present
    /\ Count(result, "G1") >= 3
    /\ Count(result, "M3") = 2
    /\ tracker.refillCount > 0

-----------------------------------------------------------------------------
(* Claims about the color layers *)

\* the layers of the last separation in which pixel i is opaque
LayersHolding(i) == {k \in DOMAIN pureReturn : pureReturn[k].imageData[i].a > 0}

\* C28: the layers separateColors makes of an image rewritten onto the
\* palette partition it: a pixel with alpha > 0 is opaque in exactly one
\* layer, a pixel with alpha 0 in none, for every palette.
C28_LayersPartitionImage ==
    pureCall.fn = "separateColors" =>
        \A i \in DOMAIN pureCall.imageData :
            Cardinality(LayersHolding(i)) = IF pureCall.imageData[i].a > 0 THEN 1 ELSE 0

\* every pixel with alpha > 0 is opaque in a layer, a pixel with alpha 0 in
\* none; and in one layer only when no two colors of the palette are within
\* the tolerance of each other
LayersCoverImage ==
    pureCall.fn = "separateColors" =>
        \A i \in DOMAIN pureCall.imageData :
            /\ pureCall.imageData[i].a > 0 => LayersHolding(i) # {}
            /\ pureCall.imageData[i].a = 0 => LayersHolding(i) = {}
            /\ (\A j, k \in DOMAIN pureCall.palette :
                   j # k => rgbDistance(pureCall.palette[j], pureCall.palette[k])
                               > pureCall.tolerance * pureCall.tolerance)
                  => Cardinality(LayersHolding(i)) <= 1

-----------------------------------------------------------------------------
(* Claims about the traced contours *)

\* two different pixels that touch at a side or a corner
Adjacent8(p, q) == p # q /\ Abs(p.x - q.x) <= 1 /\ Abs(p.y - q.y) <= 1

\* C29: in every polyline the contour tracing produces, consecutive points
\* are 8-adjacent, so that a paint move between them crosses no pixel that is
\* not an edge pixel.
C29_ConsecutivePointsAdjacent ==
    pureCall.fn = "findEdgeContours" =>
        \A c \in DOMAIN pureReturn :
            \A j \in 1..(Len(pureReturn[c]) - 1) :
                Adjacent8(pureReturn[c][j], pureReturn[c][j + 1])

\* every point of a contour is an edge pixel and appears once, in one
\* contour, and every point but the first is 8-adjacent to an earlier point
\* of its contour
ContoursAreComponents ==
    pureCall.fn = "findEdgeContours" =>
        \A c \in DOMAIN pureReturn :
            \A j \in DOMAIN pureReturn[c] :
                LET p == pureReturn[c][j]
                IN /\ isEdgePixel(pureCall.edgeMap.data, p.x, p.y, pureCall.edgeMap.width,
                                  pureCall.threshold)
                   /\ \A d \in DOMAIN pureReturn : \A k \in DOMAIN pureReturn[d] :
                         pureReturn[d][k] = p => (d = c /\ k = j)
                   /\ j > 1 => \E k \in 1..(j - 1) : Adjacent8(pureReturn[c][k], p)

-----------------------------------------------------------------------------
(* Claims about findNearest *)

FindNearestCalled == pureCall.fn = "findNearest"

FindNearestReturned == pureCall.fn = "findNearest" /\ pureCall.phase = "returned"

\* C30: findNearest with the default maximum distance terminates on every
\* indexed point set, the empty one included, and every query point: a call
\* returns after finitely many rings.
C30_FindNearestTerminates == FindNearestCalled ~> FindNearestReturned

\* a call that returns returns the index of a point as near as any other
ReturnsANearestPoint ==
    FindNearestReturned =>
        /\ pureReturn[1] \in Indices(pureCall.points)
        /\ \A i \in Indices(pureCall.points) :
              Dist2(pureCall.point, Pt(pureCall.points, pureReturn[1]))
                 <= Dist2(pureCall.point, Pt(pureCall.points, i))

\* no call has gone through all the rings that hold points without returning
ReturnsWithinThePoints ==
    FindNearestCalled => (pureCall.phase = "returned" \/ pureCall.radius < MaxRing)

=============================================================================
